---- MODULE Spec2Model ----
(***************************************************************************)
(* FE-notifier: the seat watcher scripts main.py and watch.py as one state *)
(* machine.  A run is: module import (required environment), browser       *)
(* launch, login, navigation to the area/date page, region / prefecture    *)
(* selection, the month x day search loop with the table scan, logout,     *)
(* release of the browser, the run summary with the mail notification,     *)
(* and the process exit.  The web site is the environment: what a locator  *)
(* finds, whether a click or a wait succeeds and what a page shows are     *)
(* chosen nondeterministically at the step that reads them.                *)
(*                                                                         *)
(* Text is a sequence of one-character tokens.  The Japanese characters of *)
(* the source are written as ASCII tokens: "nen" (year sign), "gatsu"      *)
(* (month sign), "nichi" (day sign), "sen" "taku" (the two characters of   *)
(* the placeholder marker), "maru" (the availability glyph).               *)
(***************************************************************************)
EXTENDS Integers, Sequences, FiniteSets, TLC

VARIABLES
    script,       \* "main" (main.py) or "watch" (watch.py)
    site,         \* "free": any site; "mock": the end-to-end fixture site
    env,          \* the process environment read at import
    pc,           \* position of the run
    exc,          \* the exception propagating out of main(), or "none"
    session,      \* browser context: "none", "open", "closed"
    page,         \* facts of the current page read by on_area_date
    arrived,      \* "unknown", "yes", "no": result of the arrival check
    did,          \* kinds of operation performed, and of wait passed, so far
    last_mark,    \* the annotation <<step, kind>> the last step emitted, if any
    ctl,          \* the optional control the last step looked for: "none", "absent", "present"
    resolver,     \* fill_any in progress: [field, tried, named]
    login,        \* what the page showed after the login submit
    sel_failed,   \* the region or the prefecture selection reported a failure
    dom_ym,       \* the month select of the page: [el, opts]
    dom_dt,       \* the day select of the page: [el, opts]
    ym_labels,    \* eligible month labels read before the loop
    dt_opts,      \* valid day options read before the loop: <<index, label>>
    mi,           \* index of the current month in loop_months
    di,           \* index of the current day in loop_days
    searched,     \* passes for which the search was triggered: <<month, day>>
    skipped,      \* passes the loop left out: <<month, day, reason>>
    rows_left,    \* rows of the results table still to scan
    matched,      \* matched rows of the table being scanned
    row,          \* the table row just scanned (<<>> when none)
    added,        \* lines appended for that row
    found_lines,  \* the result collection
    mails,        \* bodies handed to send_gmail, in order
    delivery,     \* outcome of send_gmail: "none", "skipped", "unconfigured", "sent", "error"
    result_mark,  \* annotation of the run summary: "none", "PASS", "WARN"
    job_summary,  \* top-level report: "none", "notice", "error"
    exit_code,    \* "running", "zero", "nonzero"
    blocks,       \* seat_watcher_ipa.py: blocks of the centre list still to visit
    block,        \* seat_watcher_ipa.py: text of the block being visited
    centers_matched, \* seat_watcher_ipa.py: blocks that named a target centre
    cal,          \* seat_watcher_ipa.py: the month the calendar page shows, <<>> when none
    steps,        \* seat_watcher_ipa.py: next-month clicks of the month alignment in progress
    aligned,      \* seat_watcher_ipa.py: result of ensure_month_from: "none", "true", "false"
    slot_yms      \* seat_watcher_ipa.py: the calendar month on display when each line was appended

cfgv == <<script, site, env>>
navv == <<page, arrived>>
domv == <<dom_ym, dom_dt>>
loopv == <<ym_labels, dt_opts, mi, di, searched, skipped>>
scanv == <<rows_left, matched, row, added, found_lines>>
endv == <<mails, delivery, result_mark, job_summary, exit_code>>
seatv == <<blocks, block, centers_matched, cal, steps, aligned, slot_yms>>

vars == <<cfgv, pc, exc, session, navv, did, last_mark, ctl, resolver, login, sel_failed,
          domv, loopv, scanv, endv, seatv>>

----------------------------------------------------------------------------
(* Bounds of the model *)

\* rows of a results table
MaxRows == 2
\* lines the site lets a run accumulate before it stops showing open slots
MaxFound == 2
\* options of a select when the option lists are examined on their own
MaxOpts == 3

----------------------------------------------------------------------------
(* Text helpers *)

Space == " "
Maru == "maru"

\* Python: c in name
Contains(name, c) ==
    \E i \in 0..(Len(name) - Len(c)) : SubSeq(name, i + 1, i + Len(c)) = c

RECURSIVE LStrip(_)
LStrip(s) == IF s # <<>> /\ Head(s) = Space THEN LStrip(Tail(s)) ELSE s

RECURSIVE RStrip(_)
RStrip(s) ==
    IF s # <<>> /\ s[Len(s)] = Space THEN RStrip(SubSeq(s, 1, Len(s) - 1)) ELSE s

\* Python: s.strip()
Strip(s) == RStrip(LStrip(s))

----------------------------------------------------------------------------
(* Configuration *)

\* TARGET_CENTERS, abbreviated: three centre names
TARGET_CENTERS ==
    << <<"K", "e", "n", "c", "h", "o">>, <<"N", "a", "h", "a">>, <<"O", "A", "C">> >>

\* START_YM = "2025-11"; sy, sm = map(int, START_YM.split("-"))
StartYear == 2025
StartMonth == 11

----------------------------------------------------------------------------
(* The results table.  A row is a sequence of cells; a cell is             *)
(* [tag, own, kids]: its tag ("td" or "th"), its own text and its child    *)
(* elements [tag, text, href] ("a" or "button") in document order.         *)

Cell(tag, own, kids) == [tag |-> tag, own |-> own, kids |-> kids]
Elem(tag, text, href) == [tag |-> tag, text |-> text, href |-> href]

Naha == <<"N", "a", "h", "a">>
Slot1 == <<"/", "s", "l", "o", "t", "/", "1">>

RECURSIVE KidsText(_)
KidsText(kids) ==
    IF kids = <<>> THEN <<>> ELSE Head(kids).text \o KidsText(Tail(kids))

\* the text content of a cell: its own text and that of its descendants
CellText(c) == c.own \o KidsText(c.kids)

RECURSIVE KidsWithTag(_, _)
KidsWithTag(kids, tag) ==
    IF kids = <<>> THEN <<>>
    ELSE (IF Head(kids).tag = tag THEN <<Head(kids)>> ELSE <<>>)
         \o KidsWithTag(Tail(kids), tag)

RECURSIVE RowAnchors(_)
\* r.locator("a"): the links of the row, in document order
RowAnchors(r) ==
    IF r = <<>> THEN <<>> ELSE KidsWithTag(Head(r).kids, "a") \o RowAnchors(Tail(r))

RECURSIVE RowTds(_)
\* r.locator("td")
RowTds(r) ==
    IF r = <<>> THEN <<>>
    ELSE (IF Head(r).tag = "td" THEN <<Head(r)>> ELSE <<>>) \o RowTds(Tail(r))

\* faulty variant: the first td's text is preferred to a link
RowName_PreferCell(r) ==
    IF RowTds(r) # <<>> THEN Strip(CellText(RowTds(r)[1]))
    ELSE IF RowAnchors(r) # <<>> THEN Strip(RowAnchors(r)[1].text)
    ELSE <<>>

\* the display name of a row: the first link's text when the row has a link,
\* else the first td's text; "" when the row has no td (inner_text raises)
RowName(r) ==
    IF RowAnchors(r) # <<>> THEN Strip(RowAnchors(r)[1].text)
    ELSE IF RowTds(r) # <<>> THEN Strip(CellText(RowTds(r)[1]))
    ELSE <<>>

\* any(c in name for c in TARGET_CENTERS)
MatchesTarget(name) ==
    \E k \in 1..Len(TARGET_CENTERS) : Contains(name, TARGET_CENTERS[k])

\* faulty variant: the target filter is dropped, any named row is matched
RowMatched_AnyName(r) == RowName(r) # <<>>

\* if not name or not any(...): continue
RowMatched(r) == RowName(r) # <<>> /\ MatchesTarget(RowName(r))

RECURSIVE KidMarkers(_)
\* a:has-text(maru), button:has-text(maru) among the children of a cell
KidMarkers(kids) ==
    IF kids = <<>> THEN <<>>
    ELSE (IF Head(kids).tag \in {"a", "button"} /\ Contains(Head(kids).text, <<Maru>>)
          THEN <<[text |-> Head(kids).text,
                  href |-> IF Head(kids).tag = "a" THEN Head(kids).href ELSE <<>>]>>
          ELSE <<>>)
         \o KidMarkers(Tail(kids))

RECURSIVE RowCells_AnyCell(_)
\* faulty variant: every td of the row counts as a marker
RowCells_AnyCell(r) ==
    IF r = <<>> THEN <<>>
    ELSE (IF Head(r).tag = "td"
          THEN <<[text |-> CellText(Head(r)), href |-> <<>>]>>
          ELSE <<>>)
         \o RowCells_AnyCell(Tail(r))

RECURSIVE RowCells(_)
\* r.locator("a:has-text(maru), button:has-text(maru), td:has-text(maru)"):
\* every element of the row that the selector list matches, in document
\* order; has-text matches an element whose text content, descendants
\* included, contains the glyph, so a td around a marker link is matched
\* as well as the link
RowCells(r) ==
    IF r = <<>> THEN <<>>
    ELSE (IF Head(r).tag = "td" /\ Contains(CellText(Head(r)), <<Maru>>)
          THEN <<[text |-> CellText(Head(r)), href |-> <<>>]>>
          ELSE <<>>)
         \o KidMarkers(Head(r).kids)
         \o RowCells(Tail(r))

\* faulty variant: the link is appended also when it is empty
Line_AlwaysLink(name, selected_month, selected_day, t, href) ==
    <<name, selected_month, selected_day, t, href>>

\* line = f"{name} | {selected_month} | {selected_day} | {t}"
\* if href: line += f" | {href}"
\* a line is the sequence of its fields, which the code joins with " | "
Line(name, selected_month, selected_day, t, href) ==
    IF href # <<>> THEN <<name, selected_month, selected_day, t, href>>
    ELSE <<name, selected_month, selected_day, t>>

RECURSIVE CellLines(_, _, _, _)
CellLines(cells, name, selected_month, selected_day) ==
    IF cells = <<>> THEN <<>>
    ELSE <<Line(name, selected_month, selected_day,
                Strip(Head(cells).text), Head(cells).href)>>
         \o CellLines(Tail(cells), name, selected_month, selected_day)

\* the lines one iteration of the row loop of extract_table_slots appends
RowLines(r, selected_month, selected_day) ==
    IF RowMatched(r)
    THEN CellLines(RowCells(r), RowName(r), selected_month, selected_day)
    ELSE <<>>

\* the availability markers the row shows: marker links and buttons, and
\* cells whose own text is the glyph
RECURSIVE KidGlyphs(_)
KidGlyphs(kids) ==
    IF kids = <<>> THEN 0
    ELSE (IF Contains(Head(kids).text, <<Maru>>) THEN 1 ELSE 0) + KidGlyphs(Tail(kids))

RECURSIVE RowMarkerCount(_)
RowMarkerCount(r) ==
    IF r = <<>> THEN 0
    ELSE (IF Contains(Head(r).own, <<Maru>>) THEN 1 ELSE 0)
         + KidGlyphs(Head(r).kids) + RowMarkerCount(Tail(r))

\* The rows the site shows
RowLinkNameLinkMarker ==
    << Cell("td", <<>>, <<Elem("a", Naha, <<>>)>>),
       Cell("td", <<>>, <<Elem("a", <<Maru>>, Slot1)>>) >>
RowTextNameLinkMarker ==
    << Cell("td", Naha, <<>>),
       Cell("td", <<>>, <<Elem("a", <<Maru>>, Slot1)>>) >>
RowLinkNameThMarker ==
    << Cell("th", <<>>, <<Elem("a", <<Space>> \o Naha, <<>>)>>),
       Cell("th", <<>>, <<Elem("a", <<Maru>>, Slot1)>>) >>
RowTextNameTwoTextMarkers ==
    << Cell("td", <<"O", "A", "C", "2", Space>>, <<>>),
       Cell("td", <<Maru>>, <<>>), Cell("td", <<Space, Maru>>, <<>>) >>
RowOtherCentre ==
    << Cell("td", <<>>, <<Elem("a", <<"n", "a", "h", "a">>, <<>>)>>),
       Cell("td", <<Maru>>, <<>>) >>
RowNoMarker ==
    << Cell("td", <<>>, <<Elem("a", Naha, <<>>)>>), Cell("td", <<"x">>, <<>>) >>
RowHeader ==
    << Cell("th", <<"K", "e", "n", "c", "h", "o">>, <<>>), Cell("th", <<Maru>>, <<>>) >>

Rows ==
    { RowLinkNameLinkMarker, RowTextNameLinkMarker, RowLinkNameThMarker,
      RowTextNameTwoTextMarkers, RowOtherCentre, RowNoMarker, RowHeader }

----------------------------------------------------------------------------
(* Month and day options *)

Digits == {"0", "1", "2", "3", "4", "5", "6", "7", "8", "9"}

DigitVal(ch) ==
    CASE ch = "0" -> 0 [] ch = "1" -> 1 [] ch = "2" -> 2 [] ch = "3" -> 3
      [] ch = "4" -> 4 [] ch = "5" -> 5 [] ch = "6" -> 6 [] ch = "7" -> 7
      [] ch = "8" -> 8 [] ch = "9" -> 9

IsDigitAt(lb, i) == i >= 1 /\ i <= Len(lb) /\ lb[i] \in Digits
IsCharAt(lb, i, ch) == i >= 1 /\ i <= Len(lb) /\ lb[i] = ch

RECURSIVE SkipSpaces(_, _)
\* \s* : the first position at or after i that holds no whitespace
SkipSpaces(lb, i) == IF IsCharAt(lb, i, Space) THEN SkipSpaces(lb, i + 1) ELSE i

\* the match of (\d{4})nen\s*(\d{1,2})gatsu that starts at position i:
\* <<year, month>>, or <<>> when there is none
MonthMatchAt(lb, i) ==
    IF /\ IsDigitAt(lb, i) /\ IsDigitAt(lb, i + 1)
       /\ IsDigitAt(lb, i + 2) /\ IsDigitAt(lb, i + 3)
       /\ IsCharAt(lb, i + 4, "nen")
    THEN LET j == SkipSpaces(lb, i + 5)
             year == 1000 * DigitVal(lb[i]) + 100 * DigitVal(lb[i + 1])
                     + 10 * DigitVal(lb[i + 2]) + DigitVal(lb[i + 3])
         IN  IF IsDigitAt(lb, j) /\ IsDigitAt(lb, j + 1) /\ IsCharAt(lb, j + 2, "gatsu")
             THEN <<year, 10 * DigitVal(lb[j]) + DigitVal(lb[j + 1])>>
             ELSE IF IsDigitAt(lb, j) /\ IsCharAt(lb, j + 1, "gatsu")
             THEN <<year, DigitVal(lb[j])>>
             ELSE <<>>
    ELSE <<>>

RECURSIVE MonthSearchFrom(_, _)
MonthSearchFrom(lb, i) ==
    IF i > Len(lb) THEN <<>>
    ELSE IF MonthMatchAt(lb, i) # <<>> THEN MonthMatchAt(lb, i)
    ELSE MonthSearchFrom(lb, i + 1)

\* re.search(r"(\d{4})nen\s*(\d{1,2})gatsu", lb): <<year, month>> or <<>> (None)
parse_month_label(lb) == MonthSearchFrom(lb, 1)

\* faulty variant: the year is not compared
MonthEligible_MonthOnly(lb) ==
    LET pm == parse_month_label(lb)
    IN  pm # <<>> /\ pm[2] >= StartMonth

\* pm and (pm[0] > sy or (pm[0] == sy and pm[1] >= sm))
MonthEligible(lb) ==
    LET pm == parse_month_label(lb)
    IN  pm # <<>> /\ (pm[1] > StartYear \/ (pm[1] = StartYear /\ pm[2] >= StartMonth))

\* the marker of a placeholder option
PlaceholderMark == <<"sen", "taku">>

\* faulty variant: an empty label is kept
DayValid_MarkerOnly(lb) == ~Contains(lb, PlaceholderMark)

\* o["label"] and marker not in o["label"]
DayValid(lb) == lb # <<>> /\ ~Contains(lb, PlaceholderMark)

\* A select of the page: whether the element exists, and the text of its
\* options in document order
Select(el, opts) == [el |-> el, opts |-> opts]
NoSelect == Select(FALSE, <<>>)

RECURSIVE Labels(_)
\* options_of: the trimmed label of every option; [] when the element is absent
Labels(opts) == IF opts = <<>> THEN <<>> ELSE <<Strip(Head(opts))>> \o Labels(Tail(opts))

options_of(dom) == IF dom.el THEN Labels(dom.opts) ELSE <<>>

RECURSIVE EligibleFrom_AllParsed(_)
\* faulty variant: every label that reads as a month is kept
EligibleFrom_AllParsed(labels) ==
    IF labels = <<>> THEN <<>>
    ELSE (IF parse_month_label(Head(labels)) # <<>> THEN <<Head(labels)>> ELSE <<>>)
         \o EligibleFrom_AllParsed(Tail(labels))

RECURSIVE EligibleFrom(_)
\* ym_labels: the eligible labels, in source order
EligibleFrom(labels) ==
    IF labels = <<>> THEN <<>>
    ELSE (IF MonthEligible(Head(labels)) THEN <<Head(labels)>> ELSE <<>>)
         \o EligibleFrom(Tail(labels))

RECURSIVE ValidDaysFrom(_, _)
\* dt_opts / day_opts: <<index, label>> of every valid option, in source order;
\* i is the 0-based index of the head of labels
ValidDaysFrom(labels, i) ==
    IF labels = <<>> THEN <<>>
    ELSE (IF DayValid(Head(labels)) THEN << <<i, Head(labels)>> >> ELSE <<>>)
         \o ValidDaysFrom(Tail(labels), i + 1)

Placeholder == <<"sen", "taku", "s", "h", "i", "t", "e">>
M2024_12 == <<"2", "0", "2", "4", "nen", "1", "2", "gatsu">>
M2025_10 == <<"2", "0", "2", "5", "nen", "1", "0", "gatsu">>
M2025_11 == <<"2", "0", "2", "5", "nen", "1", "1", "gatsu">>
M2025_12 == <<"2", "0", "2", "5", "nen", Space, "1", "2", "gatsu">>
M2026_01 == <<"2", "0", "2", "6", "nen", "1", "gatsu">>
D1_15 == <<"1", "nichi", "~", "1", "5", "nichi">>
D1_10 == <<"1", "nichi", "~", "1", "0", "nichi">>
D11_20 == <<"1", "1", "nichi", "~", "2", "0", "nichi">>
DMarked == <<"(", "sen", "taku", ")">>

\* the month selects the site shows
MockYm == Select(TRUE, <<M2025_10, M2025_11>>)
YmSelects ==
    { MockYm,
      Select(TRUE, <<Placeholder, M2025_10, M2025_12, M2026_01>>),
      Select(TRUE, <<Placeholder, M2025_10>>),
      Select(TRUE, <<Placeholder>>),
      NoSelect }

\* the day selects the site shows
MockDt == Select(TRUE, <<Placeholder, <<Space>> \o D1_15>>)
DtSelects ==
    { MockDt,
      Select(TRUE, <<<<>>, D1_10, Placeholder, D11_20>>),
      Select(TRUE, <<Placeholder, <<>>>>),
      Select(TRUE, <<Placeholder>>),
      NoSelect }

\* loop_months, loop_days
NoMonth == <<>>
AnyDay == <<"n", "i", "n", "i">>
Unspecified == <<"(", "n", "a", "s", "h", "i", ")">>
\* a month whose selection failed is left out with all its days
AllDays == <<"*">>

loop_months == IF ym_labels # <<>> THEN ym_labels ELSE <<NoMonth>>
loop_days == IF dt_opts # <<>> THEN dt_opts ELSE << <<1, AnyDay>> >>

\* select_by_label: the option whose trimmed text equals the label is
\* selected through the widget; js_ok is whether the widget call returns
select_by_label(dom, label_text, js_ok) ==
    IF ~dom.el THEN "NO_ELEM"
    ELSE IF \A k \in 1..Len(dom.opts) : Strip(dom.opts[k]) # label_text THEN "NO_OPT"
    ELSE IF js_ok THEN "OK" ELSE "ERR"

\* watch.py, select_option(label=...): raises after the timeout unless an
\* option carries the label
select_option_label(dom, label_text) ==
    dom.el /\ \E k \in 1..Len(dom.opts) : Strip(dom.opts[k]) = label_text

\* watch.py, select_option(index=...): the option at the 0-based index
select_option_index(dom, index) == dom.el /\ index < Len(dom.opts)

----------------------------------------------------------------------------
(* Initial state: the process before the module is imported *)

\* gmail: GMAIL_ADDRESS and GMAIL_APP_PASSWORD are both set; the scripts read
\* them only when SEND_EMAIL is on
Envs ==
    { e \in [user_id : BOOLEAN, password : BOOLEAN, send_email : BOOLEAN, gmail : BOOLEAN] :
        e.send_email \/ ~e.gmail }

NoPage == [marker |-> FALSE, region |-> FALSE, pref |-> FALSE, search |-> FALSE]
PageFacts == [marker : BOOLEAN, region : BOOLEAN, pref : BOOLEAN, search : BOOLEAN]
NoLogin == [shown |-> FALSE, logout_ctl |-> FALSE, id_field |-> FALSE]
Idle == [field |-> "none", tried |-> <<>>, named |-> 0]
NoMark == <<"none", "none">>

\* the month alignment and the centre list of seat_watcher_ipa.py at rest
NoYm == <<>>
SeatIdle ==
    /\ blocks = 0
    /\ block = <<>>
    /\ centers_matched = 0
    /\ cal = NoYm
    /\ steps = 0
    /\ aligned = "none"
    /\ slot_yms = <<>>

InitWith(sites) ==
    /\ script \in {"main", "watch"}
    /\ site \in sites
    /\ env \in Envs
    /\ pc = "import"
    /\ exc = "none"
    /\ session = "none"
    /\ page = NoPage
    /\ arrived = "unknown"
    /\ did = {}
    /\ last_mark = NoMark
    /\ ctl = "none"
    /\ resolver = Idle
    /\ login = NoLogin
    /\ sel_failed = FALSE
    /\ dom_ym = NoSelect
    /\ dom_dt = NoSelect
    /\ ym_labels = <<>>
    /\ dt_opts = <<>>
    /\ mi = 0
    /\ di = 0
    /\ searched = <<>>
    /\ skipped = {}
    /\ rows_left = 0
    /\ matched = 0
    /\ row = <<>>
    /\ added = <<>>
    /\ found_lines = <<>>
    /\ mails = <<>>
    /\ delivery = "none"
    /\ result_mark = "none"
    /\ job_summary = "none"
    /\ exit_code = "running"
    /\ SeatIdle

Init == InitWith({"free"})

\* faulty variant: the exception passes the finally clause by
Raise_SkipFinally(what) == pc' = "except" /\ exc' = what

\* an exception leaves the try block of main(): the finally clause is next
Raise(what) == pc' = "finally" /\ exc' = what

\* faulty variant: the critical flag is ignored
check_NeverCritical(cond, critical) == IF cond THEN "pass" ELSE "fail"

\* check(cond, step, ok, ng, critical): PASS, or FAIL and, when critical,
\* RuntimeError
check(cond, critical) ==
    IF cond THEN "pass" ELSE IF critical THEN "raise" ELSE "fail"

Mark(step, kind) == last_mark' = <<step, kind>> /\ ctl' = "none"

\* the step emits no annotation
Quiet == last_mark' = NoMark /\ ctl' = "none"

\* what a step found of the optional control it looked for
Looked(present) == IF present THEN "present" ELSE "absent"

\* an annotation, or none, of a step that looked for an optional control
MarkCtl(step, kind, present) == last_mark' = <<step, kind>> /\ ctl' = Looked(present)
QuietCtl(present) == last_mark' = NoMark /\ ctl' = Looked(present)

----------------------------------------------------------------------------
(* Import and login *)

\* IPA_USER_ID = need("IPA_USER_ID"); IPA_PASSWORD = need("IPA_PASSWORD")
Import ==
    /\ pc = "import"
    /\ IF env.user_id /\ env.password
       THEN pc' = "launch" /\ exit_code' = exit_code
       ELSE pc' = "exited" /\ exit_code' = "nonzero"
    /\ UNCHANGED <<cfgv, seatv, exc, session, navv, did, resolver, login, sel_failed,
                   domv, loopv, scanv, mails, delivery, result_mark, job_summary>> /\ Quiet

\* browser = p.chromium.launch(...); context = ...; page = ...
Launch ==
    /\ pc = "launch"
    /\ session' = "open"
    /\ pc' = "login_page"
    /\ UNCHANGED <<cfgv, seatv, exc, navv, did, resolver, login, sel_failed,
                   domv, loopv, scanv, endv>> /\ Quiet

\* page.goto(IPA_LOGIN_URL); check(form present, ..., critical)
LoadLoginPage ==
    /\ pc = "login_page"
    /\ \E o \in {"raise", "noform", "form"} :
          IF o = "raise" THEN Quiet /\ Raise("goto")
          ELSE LET c == check(o = "form", TRUE)
               IN  /\ Mark("login_page", IF c = "pass" THEN "PASS" ELSE "FAIL")
                   /\ IF c = "raise" THEN Raise("login_page")
                      ELSE pc' = "fill_id" /\ exc' = exc
    /\ UNCHANGED <<cfgv, seatv, session, navv, did, resolver, login, sel_failed,
                   domv, loopv, scanv, endv>>

\* LOGIN_ID_CAND, LOGIN_PW_CAND: the number of candidates of each field
NumIdCand == 7
NumPwCand == 4
NumCand(field) == IF field = "id" THEN NumIdCand ELSE NumPwCand

AfterField(field) == IF field = "id" THEN "fill_pw" ELSE "submit"

\* the label-based fill of a field, and the fallback when it raises:
\* fill_any in main.py, one combined locator in watch.py
FillField(field) ==
    /\ pc = (IF field = "id" THEN "fill_id" ELSE "fill_pw")
    /\ did' = did \cup {"fill"}
    /\ \E o \in {"label", "fallback_ok", "fallback_raise"} :
          IF o = "label"
          THEN /\ Mark(field, "PASS") /\ pc' = AfterField(field)
               /\ exc' = exc /\ resolver' = Idle
          ELSE IF script = "main"
          THEN /\ pc' = "resolve" /\ resolver' = [field |-> field, tried |-> <<>>, named |-> 0]
               /\ exc' = exc /\ Quiet
          ELSE IF o = "fallback_ok"
          THEN /\ Mark(field, "PASS") /\ pc' = AfterField(field)
               /\ exc' = exc /\ resolver' = Idle
          ELSE Raise("fill") /\ Quiet /\ resolver' = Idle
    /\ UNCHANGED <<cfgv, seatv, session, navv, login, sel_failed, domv, loopv, scanv, endv>>

FillId == FillField("id")
FillPw == FillField("pw")

\* faulty variant: the loop goes on after a successful fill
fill_any_next_KeepGoing(o) == "continue"

\* faulty variant: a fill that raises ends the resolution
fill_any_next_AbortOnError(o) ==
    IF o = "ok" THEN "return" ELSE IF o = "error" THEN "raise" ELSE "continue"

\* fill_any, after one candidate: return True after a fill that succeeded,
\* else the next candidate
fill_any_next(o) == IF o = "ok" THEN "return" ELSE "continue"

\* fill_any, one step of the loop over the candidates in list order:
\* "absent" (loc.count() is 0, no fill), "error" (fill raises, WARN), "ok"
\* (fill succeeds, PASS naming the candidate); after the last candidate
\* FAIL and RuntimeError
FillAnyStep ==
    /\ pc = "resolve"
    /\ IF Len(resolver.tried) = NumCand(resolver.field)
       THEN Mark(resolver.field, "FAIL") /\ Raise("fill_any") /\ resolver' = resolver
       ELSE \E o \in {"absent", "error", "ok"} :
              LET cand == Len(resolver.tried) + 1
                  nxt == fill_any_next(o)
              IN  /\ resolver' = [resolver EXCEPT !.tried = Append(@, o),
                                                  !.named = IF o = "ok" THEN cand ELSE @]
                  /\ IF o = "ok" THEN Mark(resolver.field, "PASS")
                     ELSE IF o = "error" THEN Mark(resolver.field, "WARN")
                     ELSE Quiet
                  /\ IF nxt = "return" THEN pc' = AfterField(resolver.field) /\ exc' = exc
                     ELSE IF nxt = "raise" THEN Raise("fill_any")
                     ELSE pc' = pc /\ exc' = exc
    /\ UNCHANGED <<cfgv, seatv, session, navv, did, login, sel_failed, domv, loopv, scanv, endv>>

\* the login button is clicked and the next page loads
SubmitLogin ==
    /\ pc = "submit"
    /\ resolver' = Idle
    /\ did' = did \cup {"submit"}
    /\ \E click_ok \in BOOLEAN, lo \in BOOLEAN, idf \in BOOLEAN :
          IF click_ok
          THEN /\ login' = [shown |-> TRUE, logout_ctl |-> lo, id_field |-> idf]
               /\ pc' = "check_login" /\ exc' = exc
          ELSE login' = login /\ Raise("click")
    /\ UNCHANGED <<cfgv, seatv, session, navv, sel_failed, domv, loopv, scanv, endv>> /\ Quiet

\* faulty variant: either predicate is accepted by both scripts
LoggedIn_Either(s, l) == l.logout_ctl \/ ~l.id_field

\* main.py: logged_in = the logout control is present
\* watch.py: the identifier field is no longer present
LoggedIn(s, l) == IF s = "main" THEN l.logout_ctl ELSE ~l.id_field

\* check(logged_in, ..., critical)
CheckLogin ==
    /\ pc = "check_login"
    /\ LET c == check(LoggedIn(script, login), TRUE)
       IN  /\ Mark("login", IF c = "pass" THEN "PASS" ELSE "FAIL")
           /\ IF c = "raise" THEN Raise("login")
              ELSE pc' = (IF script = "main" THEN "nav1" ELSE "wnav_goto") /\ exc' = exc
    /\ UNCHANGED <<cfgv, seatv, session, navv, did, resolver, login, sel_failed,
                   domv, loopv, scanv, endv>>

----------------------------------------------------------------------------
(* Navigation to the area/date page *)

\* faulty variant: the search button is not required
on_area_date_NoSearch(p) == p.marker \/ (p.region /\ p.pref)

\* on_area_date: the text marker is present, or the region select, the
\* prefecture select and the search button all exist
on_area_date(p) == p.marker \/ (p.region /\ p.pref /\ p.search)

\* the pages a click or a goto can lead to
PagesOffered == PageFacts

\* faulty variant: goto_area_date_page returns True whatever the page
Returned_AlwaysYes(ok) == "yes"

\* the value goto_area_date_page returns
Returned(ok) == IF ok THEN "yes" ELSE "no"

\* goto_area_date_page returns ok to main()
Return(ok) == arrived' = Returned(ok) /\ pc' = "check_nav"

\* goto_area_date_page, first stage: the entry link (or the two-step links,
\* or the entry URL), then the first arrival check
Nav1 ==
    /\ pc = "nav1"
    /\ login' = NoLogin
    /\ did' = did \cup {"nav"}
    /\ \E path \in {"link", "fe", "fe_l2", "goto"}, ok \in BOOLEAN, p \in PagesOffered :
          IF ~ok
          THEN Raise("click") /\ UNCHANGED <<navv>> /\ Quiet
          ELSE /\ page' = p /\ exc' = exc
               /\ IF on_area_date(p)
                  THEN Mark("nav", "PASS") /\ Return(TRUE)
                  ELSE Quiet /\ arrived' = arrived /\ pc' = "nav2"
    /\ UNCHANGED <<cfgv, seatv, session, resolver, sel_failed, domv, loopv, scanv, endv>>

\* an optional control of the navigation: when present it is clicked, which
\* loads a page or raises
OptionalClick(present, ok, p) ==
    IF ~present THEN page' = page /\ exc' = exc
    ELSE IF ok THEN page' = p /\ exc' = exc
    ELSE page' = page /\ exc' = "click"

\* the resume-application control, then the second arrival check
Nav2 ==
    /\ pc = "nav2"
    /\ \E present \in BOOLEAN, ok \in BOOLEAN, p \in PagesOffered :
          /\ OptionalClick(present, ok, p)
          /\ IF exc' # "none"
             THEN pc' = "finally" /\ UNCHANGED <<arrived>> /\ QuietCtl(present)
             ELSE IF on_area_date(page')
             THEN MarkCtl("nav", "PASS", present) /\ Return(TRUE)
             ELSE QuietCtl(present) /\ arrived' = arrived /\ pc' = "nav3"
    /\ UNCHANGED <<cfgv, seatv, session, did, resolver, login, sel_failed, domv, loopv, scanv, endv>>

\* the later stages click without an arrival check: the select / input
\* control ("nav3"), the next button of the exam row or of the page
\* ("nav4"), the eligibility and consent checks and the next button ("nav5")
NavClick(here, next) ==
    /\ pc = here
    /\ \E present \in BOOLEAN, ok \in BOOLEAN, p \in PagesOffered :
          /\ OptionalClick(present, ok, p)
          /\ pc' = (IF exc' # "none" THEN "finally" ELSE next)
          /\ QuietCtl(present)
    /\ UNCHANGED <<cfgv, seatv, session, arrived, did, resolver, login, sel_failed,
                   domv, loopv, scanv, endv>>

Nav3 == NavClick("nav3", "nav4")
Nav4 == NavClick("nav4", "nav5")

\* the eligibility radio and the consent box are checked when present, then
\* the next button is clicked when present
Nav5 ==
    /\ pc = "nav5"
    /\ \E student \in BOOLEAN, consent \in BOOLEAN, present \in BOOLEAN,
          ok \in BOOLEAN, p \in PagesOffered :
          /\ OptionalClick(present \/ student \/ consent, ok, IF present THEN p ELSE page)
          /\ pc' = (IF exc' # "none" THEN "finally" ELSE "nav_final")
          /\ IF ok /\ consent THEN MarkCtl("consent", "PASS", student /\ present)
             ELSE IF ok /\ student THEN MarkCtl("student", "PASS", FALSE)
             ELSE QuietCtl(student /\ consent /\ present)
    /\ UNCHANGED <<cfgv, seatv, session, arrived, did, resolver, login, sel_failed,
                   domv, loopv, scanv, endv>>

\* ok = on_area_date(page); PASS or WARN; return ok
NavFinal ==
    /\ pc = "nav_final"
    /\ Return(on_area_date(page))
    /\ Mark("nav", IF on_area_date(page) THEN "PASS" ELSE "WARN")
    /\ UNCHANGED <<cfgv, seatv, exc, session, page, did, resolver, login, sel_failed,
                   domv, loopv, scanv, endv>>

\* check(ok, ..., critical) in main()
CheckNav ==
    /\ pc = "check_nav"
    /\ page' = NoPage
    /\ LET c == check(arrived = "yes", TRUE)
       IN  /\ Mark("nav_check", IF c = "pass" THEN "PASS" ELSE "FAIL")
           /\ IF c = "raise" THEN Raise("nav_check")
              ELSE pc' = "select_region" /\ exc' = exc
    /\ UNCHANGED <<cfgv, seatv, session, arrived, did, resolver, login, sel_failed,
                   domv, loopv, scanv, endv>>

\* watch.py: page.goto(IPA_FE_ENTRY_URL)
WNavGoto ==
    /\ pc = "wnav_goto"
    /\ login' = NoLogin
    /\ did' = did \cup {"nav"}
    /\ \E ok \in BOOLEAN :
          IF ok THEN Mark("entry", "PASS") /\ pc' = "wnav_resume" /\ exc' = exc
          ELSE Quiet /\ Raise("goto")
    /\ UNCHANGED <<cfgv, seatv, session, navv, resolver, sel_failed, domv, loopv, scanv, endv>>

\* watch.py: an optional step; absent is a WARN, a timeout of the exam row's
\* click is caught, any other failed click raises
WNavStep(here, next, step, caught) ==
    /\ pc = here
    /\ \E present \in BOOLEAN, ok \in BOOLEAN :
          IF ~present THEN MarkCtl(step, "WARN", FALSE) /\ pc' = next /\ exc' = exc
          ELSE IF ok THEN MarkCtl(step, "PASS", TRUE) /\ pc' = next /\ exc' = exc
          ELSE IF caught THEN MarkCtl(step, "WARN", TRUE) /\ pc' = next /\ exc' = exc
          ELSE QuietCtl(TRUE) /\ Raise("click")
    /\ UNCHANGED <<cfgv, seatv, session, navv, did, resolver, login, sel_failed,
                   domv, loopv, scanv, endv>>

WNavResume == WNavStep("wnav_resume", "wnav_exam", "resume", FALSE)
WNavExam == WNavStep("wnav_exam", "wnav_student", "exam", TRUE)
WNavStudent == WNavStep("wnav_student", "wnav_consent", "student", FALSE)
WNavConsent == WNavStep("wnav_consent", "wnav_next", "consent", FALSE)
WNavNext == WNavStep("wnav_next", "select_region", "next", FALSE)

----------------------------------------------------------------------------
(* Region, prefecture and the option lists *)

REGION_NAME == <<"K", "y", "u">>
PREF_NAME == <<"O", "k", "i">>

\* the region and prefecture selects the site shows
AreaSelects == {Select(TRUE, <<Placeholder, REGION_NAME>>), Select(TRUE, <<Placeholder>>), NoSelect}
PrefSelects == {Select(TRUE, <<Placeholder, PREF_NAME>>), Select(TRUE, <<Placeholder>>), NoSelect}

YmOffered == IF site = "mock" THEN {MockYm} ELSE YmSelects
DtOffered == IF site = "mock" THEN {MockDt} ELSE DtSelects

\* document.querySelector(sel) && sel.options.length > 1
Populated(dom) == dom.el /\ Len(dom.opts) > 1

\* main.py: select_by_label(page, "select_area", REGION_NAME), then the
\* bounded wait for the prefecture options
SelectRegion ==
    /\ pc = "select_region" /\ script = "main"
    /\ \E dom \in AreaSelects, js_ok \in BOOLEAN, prefs \in PrefSelects :
          LET res == select_by_label(dom, REGION_NAME, js_ok)
          IN  /\ sel_failed' = (sel_failed \/ ~(res = "OK"))
              /\ Mark("select", IF res = "OK" THEN "PASS" ELSE "FAIL")
              /\ IF Populated(prefs)
                 THEN /\ did' = did \cup {"region", "wait_pref"}
                      /\ pc' = "select_pref" /\ exc' = exc
                 ELSE did' = did \cup {"region"} /\ Raise("wait")
    /\ UNCHANGED <<cfgv, seatv, session, navv, resolver, login,
                   domv, loopv, scanv, endv>>

\* main.py: select_by_label(page, "select_pref", PREF_NAME), then the bounded
\* wait for the month and day options
SelectPref ==
    /\ pc = "select_pref" /\ script = "main"
    /\ \E dom \in PrefSelects, js_ok \in BOOLEAN, ym \in YmOffered, dt \in DtOffered :
          LET res == select_by_label(dom, PREF_NAME, js_ok)
          IN  /\ sel_failed' = (sel_failed \/ ~(res = "OK"))
              /\ Mark("select", IF res = "OK" THEN "PASS" ELSE "FAIL")
              /\ dom_ym' = ym /\ dom_dt' = dt
              /\ IF Populated(ym) /\ Populated(dt)
                 THEN /\ did' = did \cup {"pref", "wait_dates"}
                      /\ pc' = "read_options" /\ exc' = exc
                 ELSE did' = did \cup {"pref"} /\ Raise("wait")
    /\ UNCHANGED <<cfgv, seatv, session, navv, resolver, login,
                   loopv, scanv, endv>>

\* watch.py: select_in_row("region", REGION_NAME): the row or its select is
\* missing (WARN), select_option raises (FAIL), or the option is selected
WSelectRegion ==
    /\ pc = "select_region" /\ script = "watch"
    /\ did' = did \cup {"region"}
    /\ \E o \in {"norow", "noselect", "error", "ok"} :
          /\ sel_failed' = (sel_failed \/ ~(o = "ok"))
          /\ Mark("select", CASE o = "ok" -> "PASS" [] o = "error" -> "FAIL" [] OTHER -> "WARN")
    /\ pc' = "select_pref"
    /\ UNCHANGED <<cfgv, seatv, exc, session, navv, resolver, login,
                   domv, loopv, scanv, endv>>

\* watch.py: select_in_row("prefecture", PREF_NAME), month_sel and day_sel,
\* check(bool(month_sel and day_sel), ..., critical)
WSelectPref ==
    /\ pc = "select_pref" /\ script = "watch"
    /\ did' = did \cup {"pref"}
    /\ \E o \in {"norow", "noselect", "error", "ok"}, ym \in YmOffered, dt \in DtOffered :
          /\ sel_failed' = (sel_failed \/ ~(o = "ok"))
          /\ dom_ym' = ym /\ dom_dt' = dt
          /\ LET c == check(ym.el /\ dt.el, TRUE)
             IN  /\ Mark("selects", IF c = "pass" THEN "PASS" ELSE "FAIL")
                 /\ IF c = "raise" THEN Raise("selects")
                    ELSE pc' = "read_options" /\ exc' = exc
    /\ UNCHANGED <<cfgv, seatv, session, navv, resolver, login,
                   loopv, scanv, endv>>

\* the option lists are read: ym_labels (month_opts), dt_opts (day_opts)
ReadOptions ==
    /\ pc = "read_options"
    /\ did' = did \cup {"read"}
    /\ ym_labels' = EligibleFrom(options_of(dom_ym))
    /\ dt_opts' = ValidDaysFrom(options_of(dom_dt), 0)
    /\ IF dt_opts' = <<>> THEN Mark("day", "WARN")
       ELSE IF ym_labels' = <<>> THEN Mark("month", "WARN")
       ELSE Quiet
    /\ mi' = 1 /\ di' = 0
    /\ pc' = "loop_month"
    /\ UNCHANGED <<cfgv, seatv, exc, session, navv, resolver, login, sel_failed, domv, searched,
                   skipped, scanv, endv>>

----------------------------------------------------------------------------
(* The month x day search loop *)

\* faulty variant: the months are gone through from the last to the first
m_lb_Reversed == loop_months[Len(loop_months) + 1 - mi]

\* the labels of the current iteration
m_lb == loop_months[mi]
d_lb == loop_days[di][2]
day_index == loop_days[di][1]

\* extract_table_slots(m_lb or "(unspecified)", d_lb)
selected_month == IF m_lb # NoMonth THEN m_lb ELSE Unspecified

\* faulty variant: the days of a month are gone through although its
\* selection failed
ContinueMonth_Never(ok) == FALSE

\* if not select_by_label(page, "select_ym", m_lb): continue
ContinueMonth(ok) == ~ok

\* for m_lb in loop_months: if m_lb: select the month, or continue
LoopMonth ==
    /\ pc = "loop_month"
    /\ IF mi > Len(loop_months)
       THEN pc' = "logout" /\ UNCHANGED <<mi, di, did, skipped>> /\ Quiet
       ELSE IF m_lb = NoMonth
       THEN pc' = "loop_day" /\ di' = 1 /\ UNCHANGED <<mi, did, skipped>> /\ Quiet
       ELSE /\ did' = did \cup {"month"}
            /\ \E env_ok \in BOOLEAN :
                  LET ok == IF script = "main"
                            THEN select_by_label(dom_ym, m_lb, env_ok) = "OK"
                            ELSE select_option_label(dom_ym, m_lb) /\ env_ok
                  IN  /\ Mark("month", IF ok THEN "PASS"
                                        ELSE IF script = "main" THEN "FAIL" ELSE "WARN")
                      /\ skipped' = IF ok THEN skipped
                                    ELSE skipped \cup {<<m_lb, AllDays, "month">>}
                      /\ IF ContinueMonth(ok)
                         THEN pc' = pc /\ mi' = mi + 1 /\ di' = di
                         ELSE pc' = "loop_day" /\ di' = 1 /\ mi' = mi
    /\ UNCHANGED <<cfgv, seatv, exc, session, navv, resolver, login, sel_failed, domv,
                   ym_labels, dt_opts, searched, scanv, endv>>

\* for d in loop_days: select the day, or continue
LoopDay ==
    /\ pc = "loop_day"
    /\ IF di > Len(loop_days)
       THEN pc' = "loop_month" /\ mi' = mi + 1 /\ di' = 0 /\ UNCHANGED <<did, skipped>> /\ Quiet
       ELSE /\ did' = did \cup {"day"}
            /\ mi' = mi
            /\ \E env_ok \in BOOLEAN :
                  LET ok == IF script = "main"
                            THEN select_by_label(dom_dt, d_lb, env_ok) = "OK"
                            ELSE select_option_index(dom_dt, day_index) /\ env_ok
                  IN  IF ok
                      THEN Mark("day", "PASS") /\ pc' = "search" /\ di' = di /\ skipped' = skipped
                      ELSE /\ Mark("day", IF script = "main" THEN "FAIL" ELSE "WARN")
                           /\ pc' = pc /\ di' = di + 1
                           /\ skipped' = skipped \cup {<<m_lb, d_lb, "day">>}
    /\ UNCHANGED <<cfgv, seatv, exc, session, navv, resolver, login, sel_failed, domv,
                   ym_labels, dt_opts, searched, scanv, endv>>

\* the pass for which the fixture site shows its one open slot
MockPass == <<M2025_11, D1_15>>

\* the number of rows of the table the site shows for the current pass
RowCounts ==
    IF site = "mock" /\ <<m_lb, d_lb>> = MockPass THEN {1} ELSE 0..MaxRows

\* the rows the site shows for the current pass
RowsOffered ==
    IF site = "mock"
    THEN IF <<m_lb, d_lb>> = MockPass
         THEN {RowLinkNameLinkMarker, RowTextNameLinkMarker, RowLinkNameThMarker}
         ELSE {RowOtherCentre, RowHeader}
    ELSE {r \in Rows : RowMarkerCount(r) = 0 \/ Len(found_lines) < MaxFound}

\* click_search(): the search button is clicked when present; on success
\* extract_table_slots starts on the table the page then shows
ClickSearch ==
    /\ pc = "search"
    /\ \E present \in BOOLEAN, ok \in BOOLEAN, n \in RowCounts :
          IF ~present
          THEN /\ Mark("search", "WARN") /\ pc' = "loop_day" /\ di' = di + 1
               /\ skipped' = skipped \cup {<<m_lb, d_lb, "nosearch">>}
               /\ UNCHANGED <<exc, did, searched, rows_left>>
          ELSE IF ~ok
          THEN Raise("click") /\ UNCHANGED <<di, did, searched, skipped, rows_left>> /\ Quiet
          ELSE /\ did' = did \cup {"search"}
               /\ skipped' = skipped
               /\ searched' = Append(searched, <<m_lb, d_lb>>)
               /\ exc' = exc
               /\ IF n = 0
                  THEN /\ Mark("table", "WARN") /\ pc' = "loop_day" /\ di' = di + 1
                       /\ rows_left' = rows_left
                  ELSE /\ Mark("search", "PASS") /\ pc' = "scan" /\ di' = di
                       /\ rows_left' = n
    /\ UNCHANGED <<cfgv, seatv, session, navv, resolver, login, sel_failed, domv, ym_labels,
                   dt_opts, mi, matched, row, added, found_lines, endv>>

\* extract_table_slots, one row of the table; after the last row the WARN
\* for a table without a matched row, and the next day of the loop
ScanRow ==
    /\ pc = "scan"
    /\ IF rows_left = 0
       THEN /\ IF matched = 0 THEN Mark("match", "WARN") ELSE Quiet
            /\ row' = <<>> /\ added' = <<>> /\ matched' = 0
            /\ pc' = "loop_day" /\ di' = di + 1
            /\ UNCHANGED <<rows_left, found_lines>>
       ELSE \E r \in RowsOffered :
              /\ row' = r
              /\ added' = RowLines(r, selected_month, d_lb)
              /\ found_lines' = found_lines \o added'
              /\ matched' = matched + (IF RowMatched(r) THEN 1 ELSE 0)
              /\ rows_left' = rows_left - 1
              /\ IF ~RowMatched(r) THEN Quiet
                 ELSE IF RowCells(r) = <<>> THEN Mark("slots", "WARN")
                 ELSE Mark("slots", "PASS")
              /\ pc' = pc /\ di' = di
    /\ UNCHANGED <<cfgv, seatv, exc, session, navv, did, resolver, login, sel_failed, domv,
                   ym_labels, dt_opts, mi, searched, skipped, endv>>

----------------------------------------------------------------------------
(* Logout, release of the browser, run summary, exit *)

\* the logout control is clicked when present
Logout ==
    /\ pc = "logout"
    /\ \E present \in BOOLEAN, ok \in BOOLEAN :
          /\ exc' = (IF present /\ ~ok THEN "click" ELSE "none")
          /\ IF ~present THEN MarkCtl("logout", "WARN", FALSE)
             ELSE IF ok THEN MarkCtl("logout", "PASS", TRUE)
             ELSE QuietCtl(TRUE)
    /\ pc' = "finally"
    /\ UNCHANGED <<cfgv, seatv, session, navv, did, resolver, login, sel_failed, domv, loopv,
                   scanv, endv>>

\* faulty variant: the exception is swallowed and the summary runs
AfterFinally_Swallow(e) == "summary"

\* after the finally clause: the exception, if any, goes on to the handler
\* of the entry point; else main() continues with the run summary
AfterFinally(e) == IF e # "none" THEN "except" ELSE "summary"

\* finally: context.close(); browser.close()
Finally ==
    /\ pc = "finally"
    /\ session' = "closed"
    /\ resolver' = Idle
    /\ login' = NoLogin
    /\ page' = NoPage
    /\ pc' = AfterFinally(exc)
    /\ UNCHANGED <<cfgv, seatv, exc, arrived, did, sel_failed, domv, loopv, scanv, endv>> /\ Quiet

\* body = header + "\n".join(found_lines): the lines of the body
START_YM == <<"2", "0", "2", "5", "-", "1", "1">>
Header == REGION_NAME \o <<Space, "/", Space>> \o PREF_NAME \o <<Space, "/", Space>> \o START_YM

RECURSIVE JoinWith(_, _)
\* Python: sep.join(texts)
JoinWith(texts, sep) ==
    IF texts = <<>> THEN <<>>
    ELSE IF Len(texts) = 1 THEN texts[1]
    ELSE texts[1] \o sep \o JoinWith(Tail(texts), sep)

\* the text of a line: its fields joined with " | "
LineText(line) == JoinWith(line, <<Space, "|", Space>>)

Body(lines) ==
    Header \o <<"\n", "\n">>
    \o JoinWith([k \in 1..Len(lines) |-> LineText(lines[k])], <<"\n">>)

\* faulty variant: the SMTP exchange is tried without the credentials
send_gmail_NoCredentialCheck(e, smtp_ok) ==
    IF ~e.send_email THEN "skipped"
    ELSE IF smtp_ok THEN "sent" ELSE "error"

\* send_gmail: skipped when SEND_EMAIL is off, FAIL when the credentials are
\* missing, else the SMTP exchange, whose exception is caught
send_gmail(e, smtp_ok) ==
    IF ~e.send_email THEN "skipped"
    ELSE IF ~e.gmail THEN "unconfigured"
    ELSE IF smtp_ok THEN "sent" ELSE "error"

\* faulty variant: the summary notifies only above one line
ShouldNotify_MoreThanOne(lines) == Len(lines) > 1

\* faulty variant: the summary notifies whatever was found
ShouldNotify_Always(lines) == TRUE

\* whether the run summary notifies
ShouldNotify(lines) == lines # <<>>

\* the run summary of main()
Summary ==
    /\ pc = "summary"
    /\ IF ShouldNotify(found_lines)
       THEN /\ result_mark' = "PASS"
            /\ mails' = Append(mails, Body(found_lines))
            /\ \E smtp_ok \in BOOLEAN :
                  /\ delivery' = send_gmail(env, smtp_ok)
                  /\ Mark("mail", CASE delivery' = "sent" -> "PASS"
                                    [] delivery' = "skipped" -> "WARN"
                                    [] OTHER -> "FAIL")
       ELSE /\ result_mark' = "WARN"
            /\ Mark("result", "WARN")
            /\ UNCHANGED <<mails, delivery>>
    /\ pc' = "returned"
    /\ UNCHANGED <<cfgv, seatv, exc, session, navv, did, resolver, login, sel_failed, domv, loopv,
                   scanv, job_summary, exit_code>>

\* main() returned: the job summary notice; the process exits with 0
ExitNormal ==
    /\ pc = "returned"
    /\ job_summary' = "notice"
    /\ exit_code' = "zero"
    /\ pc' = "exited"
    /\ UNCHANGED <<cfgv, seatv, exc, session, navv, did, resolver, login, sel_failed,
                   domv, loopv, scanv, mails, delivery, result_mark>> /\ Quiet

\* except Exception: the job summary error, then the exception is re-raised
ExitFailure ==
    /\ pc = "except"
    /\ job_summary' = "error"
    /\ exit_code' = "nonzero"
    /\ pc' = "exited"
    /\ UNCHANGED <<cfgv, seatv, exc, session, navv, did, resolver, login, sel_failed,
                   domv, loopv, scanv, mails, delivery, result_mark>> /\ Quiet

Next ==
    \/ Import \/ Launch \/ LoadLoginPage \/ FillId \/ FillPw \/ FillAnyStep
    \/ SubmitLogin \/ CheckLogin
    \/ Nav1 \/ Nav2 \/ Nav3 \/ Nav4 \/ Nav5 \/ NavFinal \/ CheckNav
    \/ WNavGoto \/ WNavResume \/ WNavExam \/ WNavStudent \/ WNavConsent \/ WNavNext
    \/ SelectRegion \/ SelectPref \/ WSelectRegion \/ WSelectPref \/ ReadOptions
    \/ LoopMonth \/ LoopDay \/ ClickSearch \/ ScanRow
    \/ Logout \/ Finally \/ Summary \/ ExitNormal \/ ExitFailure

Spec == Init /\ [][Next]_vars

\* the end-to-end fixture: the same program against the fixture site
InitE2E == InitWith({"mock"})
SpecE2E == InitE2E /\ [][Next]_vars

----------------------------------------------------------------------------
(* The option lists on their own: the run stands before the option lists   *)
(* are read, on a page whose month and day selects hold any options.       *)

\* option texts of a month select and of a day select
MonthTexts == {Placeholder, M2024_12, M2025_10, M2025_11, M2025_12, M2026_01}
DayTexts == {<<>>, Placeholder, D1_10, <<Space>> \o D11_20, DMarked}

\* the sequences over S of length n, and of length up to n
SeqsOfLen(S, n) == [1..n -> S]
SeqsUpTo(S, n) == UNION {SeqsOfLen(S, k) : k \in 0..n}

\* the selects the page can hold when the option lists are read: main.py
\* has waited for both to hold more than one option, watch.py has checked
\* that both exist
OptionPages ==
    {<<Select(TRUE, o), MockDt>> : o \in SeqsUpTo(MonthTexts, MaxOpts)}
    \cup {<<MockYm, Select(TRUE, o)>> : o \in SeqsUpTo(DayTexts, MaxOpts)}

InitOptions ==
    /\ script \in {"main", "watch"}
    /\ site = "free"
    /\ env \in {e \in Envs : e.user_id /\ e.password}
    /\ pc = "read_options"
    /\ exc = "none"
    /\ session = "open"
    /\ page = NoPage
    /\ arrived = (IF script = "main" THEN "yes" ELSE "unknown")
    /\ did = {"fill", "submit", "nav", "region", "pref"}
             \cup (IF script = "main" THEN {"wait_pref", "wait_dates"} ELSE {})
    /\ last_mark = NoMark
    /\ ctl = "none"
    /\ resolver = Idle
    /\ login = NoLogin
    /\ sel_failed = FALSE
    /\ \E pg \in OptionPages :
          /\ script = "main" => Populated(pg[1]) /\ Populated(pg[2])
          /\ dom_ym = pg[1] /\ dom_dt = pg[2]
    /\ ym_labels = <<>>
    /\ dt_opts = <<>>
    /\ mi = 0
    /\ di = 0
    /\ searched = <<>>
    /\ skipped = {}
    /\ rows_left = 0
    /\ matched = 0
    /\ row = <<>>
    /\ added = <<>>
    /\ found_lines = <<>>
    /\ mails = <<>>
    /\ delivery = "none"
    /\ result_mark = "none"
    /\ job_summary = "none"
    /\ exit_code = "running"
    /\ SeatIdle

NextOptions == ReadOptions
SpecOptions == InitOptions /\ [][NextOptions]_vars

----------------------------------------------------------------------------
(* Properties *)

Lines == {found_lines[k] : k \in 1..Len(found_lines)}
TargetSet == {TARGET_CENTERS[k] : k \in 1..Len(TARGET_CENTERS)}

\* name holds one of the target names as a contiguous, case-sensitive piece
HasTargetInside(name) ==
    \E c \in TargetSet : \E i \in 1..Len(name) : \E j \in i..Len(name) :
        SubSeq(name, i, j) = c

\* found_lines ends with the lines appended for the row just scanned
EndsWithAdded ==
    /\ Len(added) <= Len(found_lines)
    /\ SubSeq(found_lines, Len(found_lines) - Len(added) + 1, Len(found_lines)) = added

\* C1: every entry of found_lines carries a non-empty display name that
\* contains a target centre name as a case-sensitive substring and was
\* appended by the scan of a row with that name; a row whose extracted name
\* contains no target name (or is empty) appends nothing.
C1_OnlyMatchedRows ==
    /\ \A l \in Lines : l[1] # <<>> /\ HasTargetInside(l[1])
    /\ row # <<>> =>
          /\ EndsWithAdded
          /\ \A k \in 1..Len(added) : added[k][1] = RowName(row)
          /\ (RowName(row) = <<>> \/ ~HasTargetInside(RowName(row))) => added = <<>>

\* C1 witness: a row of another centre that shows a marker has been scanned
\* and nothing was appended for it, while earlier entries exist
C1_Witness ==
    /\ pc = "scan" /\ row = RowOtherCentre /\ added = <<>> /\ found_lines # <<>>

\* C2: a matched row appends exactly one line per availability marker of the
\* row, each with the row's display name and the month and day labels of the
\* current iteration.
C2_OneLinePerMarker ==
    (row # <<>> /\ RowMatched(row)) =>
        /\ Len(added) = RowMarkerCount(row)
        /\ \A k \in 1..Len(added) :
              /\ added[k][1] = RowName(row)
              /\ added[k][2] = selected_month
              /\ added[k][3] = d_lb

\* the record the end-to-end fixture expects
MockRecord == <<Naha, M2025_11, D1_15, <<Maru>>, Slot1>>

\* the fixture run in which login, navigation, every selection and the
\* search succeeded, at its end
MockRunDone ==
    /\ site = "mock" /\ script = "main"
    /\ pc = "exited" /\ exc = "none" /\ exit_code = "zero"
    /\ ~sel_failed
    /\ searched = <<MockPass>>

\* C3: the successful fixture run ends with exactly the one expected record
\* and one notification whose body holds the record's line; no search is
\* made for the earlier month or for the placeholder day.
C3_EndToEnd ==
    /\ \A k \in 1..Len(searched) :
          searched[k][1] # M2025_10 /\ ~Contains(searched[k][2], PlaceholderMark)
    /\ MockRunDone =>
          /\ found_lines = <<MockRecord>>
          /\ Len(mails) = 1
          /\ Contains(mails[1], LineText(MockRecord))

\* main() went past the finally clause without an exception
MainCompleted == pc \in {"returned", "exited"} /\ exc = "none" /\ session = "closed"

\* C4: when the loop and the logout attempt complete with a non-empty result
\* collection the run reports success and send_gmail is invoked exactly
\* once; it is invoked at most once in any run and never before the loop
\* and the release of the browser are over.
C4_NotifyOnce ==
    /\ Len(mails) <= 1
    /\ mails # <<>> => MainCompleted /\ mails[1] = Body(found_lines)
    /\ (MainCompleted /\ found_lines # <<>>) =>
          /\ Len(mails) = 1
          /\ result_mark = "PASS"
          /\ (pc = "exited" => job_summary = "notice" /\ exit_code = "zero")

\* C4 witness: a completed run with a found slot and its one notification
C4_Witness ==
    /\ pc = "exited" /\ exc = "none" /\ found_lines # <<>> /\ Len(mails) = 1

\* C5: the result collection grows only when a matched row is scanned, and a
\* run that completes with an empty result collection never invokes the
\* notifier, reports WARN (not FAIL, not PASS) and exits with code zero.
C5_NoMatchNoMail ==
    /\ [][found_lines' # found_lines =>
            (pc = "scan" /\ row' # <<>> /\ HasTargetInside(RowName(row')))]_vars
    /\ [](   (MainCompleted /\ found_lines = <<>>) =>
                /\ mails = <<>> /\ delivery = "none"
                /\ result_mark = "WARN"
                /\ (pc = "exited" => job_summary = "notice" /\ exit_code = "zero"))

\* C5 witness: a run that searched, found nothing and exited
C5_Witness ==
    /\ pc = "exited" /\ exc = "none" /\ searched # <<>> /\ found_lines = <<>>
    /\ result_mark = "WARN" /\ exit_code = "zero"

\* the operations that follow the login form check
AfterFormCheck == {"fill", "submit", "nav", "region", "pref", "read", "month", "day", "search"}

\* C6: when the login page shows no form the run aborts at that check: no
\* credential is filled, nothing is navigated, selected or searched, the
\* notifier is never invoked and the process exits non-zero.
C6_NoFormAborts ==
    /\ last_mark = <<"login_page", "FAIL">> => exc = "login_page" /\ pc = "finally"
    /\ exc = "login_page" =>
          /\ pc \in {"finally", "except", "exited"}
          /\ did \cap AfterFormCheck = {}
          /\ searched = <<>> /\ found_lines = <<>> /\ mails = <<>>
          /\ (pc = "exited" => exit_code = "nonzero" /\ job_summary = "error")

\* C6 witness: the process has exited after the missing login form
C6_Witness == exc = "login_page" /\ pc = "exited" /\ session = "closed"

\* C7: a run that aborts on an exception escaping main(), also one raised in
\* the loop after lines were accumulated, never invokes the notifier and
\* exits non-zero.
C7_AbortNoMail ==
    exc # "none" =>
        /\ pc \in {"finally", "except", "exited"}
        /\ mails = <<>> /\ delivery = "none" /\ result_mark = "none"
        /\ (pc = "exited" => exit_code = "nonzero" /\ job_summary = "error")

\* C7 witness: an exception in the loop after lines were accumulated
C7_Witness ==
    /\ exc = "click" /\ pc = "exited" /\ found_lines # <<>> /\ "search" \in did

\* the login check has just been made
LoginChecked == last_mark[1] = "login" /\ login.shown

\* C8 (as claimed): the login is accepted when the identifier field is gone
\* or a logout control is present, and refused only when neither holds.
C8_EitherPredicate ==
    LoginChecked =>
        ((last_mark[2] = "PASS") <=> (~login.id_field \/ login.logout_ctl))

\* C8 (amended): main.py accepts the login exactly when a logout control is
\* present, watch.py exactly when the identifier field is no longer
\* present; otherwise the run aborts as login not confirmed.
C8_OnePredicatePerScript ==
    LoginChecked =>
        /\ (last_mark[2] = "PASS") <=>
              ((script = "main" /\ login.logout_ctl) \/ (script = "watch" /\ ~login.id_field))
        /\ last_mark[2] = "PASS" => exc = "none" /\ pc \in {"nav1", "wnav_goto"}
        /\ last_mark[2] # "PASS" => last_mark[2] = "FAIL" /\ exc = "login" /\ pc = "finally"

\* C8 witness: main.py refuses a login after which the identifier field is
\* gone but no logout control is shown
C8_Witness ==
    /\ LoginChecked /\ script = "main" /\ ~login.id_field /\ ~login.logout_ctl
    /\ exc = "login"

\* the operations of main() that follow the arrival check
AfterArrival == {"region", "pref", "read", "month", "day", "search"}

\* C9: goto_area_date_page reports PASS on arrival and WARN on non-arrival
\* and returns the predicate's value without raising; main() turns a false
\* result into a fatal abort, so main.py selects and searches nothing unless
\* the arrival predicate was found true.
C9_ArrivalEscalated ==
    script = "main" =>
        /\ last_mark = <<"nav", "PASS">> =>
              arrived = "yes" /\ on_area_date(page) /\ pc = "check_nav" /\ exc = "none"
        /\ last_mark = <<"nav", "WARN">> =>
              arrived = "no" /\ ~on_area_date(page) /\ pc = "check_nav" /\ exc = "none"
        /\ (arrived = "no" /\ pc # "check_nav") =>
              exc = "nav_check" /\ pc \in {"finally", "except", "exited"}
        /\ did \cap AfterArrival # {} => arrived = "yes"
        /\ (arrived # "yes") => searched = <<>> /\ found_lines = <<>>

\* C9 witness: the run was aborted by main() after a reported non-arrival
C9_Witness ==
    /\ script = "main" /\ arrived = "no" /\ exc = "nav_check" /\ pc = "exited"
    /\ exit_code = "nonzero"

\* C10: the arrival predicate is true exactly when the text marker is
\* present, or the region select, the prefecture select and the search
\* button all exist.
C10_ArrivalPredicate ==
    LET claimed == page.marker \/ (page.region /\ page.pref /\ page.search)
    IN  /\ pc = "check_nav" => (arrived = "yes" <=> claimed)
        /\ (pc \in {"nav2", "nav3"} /\ script = "main") => ~claimed
        /\ (pc = "check_nav" /\ ~page.marker /\ ~(page.region /\ page.pref /\ page.search))
              => arrived = "no"

\* C10 witness: arrival found by the three controls without the text marker
C10_Witness ==
    /\ pc = "check_nav" /\ arrived = "yes" /\ ~page.marker
    /\ page.region /\ page.pref /\ page.search

\* C11 (as claimed): an exception leaves main() only from a critical check
\* (login page, login, arrival, the month / day selects); a failed selector
\* candidate, an exhausted fallback chain, a failed click on an optional
\* control, a wait that times out or a failed selection never aborts the run.
C11_OnlyCriticalAbort ==
    exc \in {"none", "login_page", "login", "nav_check", "selects"}

\* the label of option k of a select, as the scripts read it
LabelAt(dom, k) == Strip(dom.opts[k])

\* the j-th smallest element of a finite set of numbers
Nth(S, j) == CHOOSE k \in S : Cardinality({x \in S : x < k}) = j - 1

DigitChars == <<"0", "1", "2", "3", "4", "5", "6", "7", "8", "9">>

\* the number written by the digits of lb from position i to position j
\* (-1 when one of them is no digit)
NumberAt(lb, i, j) ==
    IF \E k \in i..j : k > Len(lb) \/ \A d \in 0..9 : DigitChars[d + 1] # lb[k]
    THEN -1
    ELSE LET v(k) == CHOOSE d \in 0..9 : DigitChars[d + 1] = lb[k]
         IN  IF j = i THEN v(i)
             ELSE IF j = i + 1 THEN 10 * v(i) + v(j)
             ELSE 1000 * v(i) + 100 * v(i + 1) + 10 * v(i + 2) + v(i + 3)

\* the months lb reads as: a year of four digits, the year sign, any
\* blanks, a month of one or two digits and the month sign
Readings(lb) ==
    { <<NumberAt(lb, t[1], t[1] + 3), NumberAt(lb, t[2], t[2] + t[3] - 1)>> :
        t \in { u \in (1..Len(lb)) \X (1..Len(lb)) \X {1, 2} :
                  /\ u[2] >= u[1] + 5
                  /\ NumberAt(lb, u[1], u[1] + 3) >= 0
                  /\ lb[u[1] + 4] = "nen"
                  /\ \A b \in (u[1] + 5)..(u[2] - 1) : lb[b] = Space
                  /\ NumberAt(lb, u[2], u[2] + u[3] - 1) >= 0
                  /\ u[2] + u[3] <= Len(lb) /\ lb[u[2] + u[3]] = "gatsu" } }

\* the label names a month at or after the configured start
FromStart(lb) ==
    \E r \in Readings(lb) :
        r[1] > StartYear \/ (r[1] = StartYear /\ r[2] >= StartMonth)

\* C12: the eligible-month list holds exactly the month options whose label
\* reads as <year><month> at or after the configured start, in source order
\* (a label that does not read as a month is left out); filtering the list
\* again leaves it unchanged; for start 2025-11 the options 2025-10,
\* 2025-11, 2025-12 give 2025-11 then 2025-12.
C12_EligibleMonths ==
    "read" \in did =>
        LET idx == {k \in 1..Len(dom_ym.opts) : FromStart(LabelAt(dom_ym, k))}
        IN  /\ Len(ym_labels) = Cardinality(idx)
            /\ \A j \in 1..Len(ym_labels) : ym_labels[j] = LabelAt(dom_ym, Nth(idx, j))
            /\ EligibleFrom(ym_labels) = ym_labels
            /\ ym_labels = EligibleFrom(options_of(dom_ym))
            /\ dom_ym.opts = <<M2025_10, M2025_11, M2025_12>>
                  => ym_labels = <<M2025_11, M2025_12>>

\* C12 witness: the options 2025-10, 2025-11, 2025-12 were read
C12_Witness ==
    /\ "read" \in did /\ dom_ym.opts = <<M2025_10, M2025_11, M2025_12>>
    /\ ym_labels = <<M2025_11, M2025_12>>

\* C13: the valid-day list holds exactly the day options whose label is not
\* empty and does not hold the placeholder marker, in source order, each
\* with the index of its option in the select, by which that option is
\* selected again.
C13_ValidDays ==
    "read" \in did =>
        LET idx == {k \in 1..Len(dom_dt.opts) :
                      /\ LabelAt(dom_dt, k) # <<>>
                      /\ \A i \in 1..Len(LabelAt(dom_dt, k)) - 1 :
                            <<LabelAt(dom_dt, k)[i], LabelAt(dom_dt, k)[i + 1]>>
                                # <<"sen", "taku">>}
        IN  /\ Len(dt_opts) = Cardinality(idx)
            /\ \A j \in 1..Len(dt_opts) :
                  /\ dt_opts[j] = <<Nth(idx, j) - 1, LabelAt(dom_dt, Nth(idx, j))>>
                  /\ select_option_index(dom_dt, dt_opts[j][1])
                  /\ select_by_label(dom_dt, dt_opts[j][2], TRUE) = "OK"

\* C13 witness: a valid option, an option holding the marker and another
\* valid one were read; the valid ones keep the indexes 0 and 2
C13_Witness ==
    /\ "read" \in did
    /\ dom_dt.opts = <<D1_10, DMarked, <<Space>> \o D11_20>>
    /\ dt_opts = << <<0, D1_10>>, <<2, D11_20>> >>

\* the outcomes of the candidates fill_any has gone through, in list order
Tried == resolver.tried

\* C14: fill_any goes through the candidates in list order, fills only a
\* candidate that matches an element, returns at the first candidate whose
\* fill succeeds with a PASS naming that candidate, and goes through no
\* later candidate after a success.
C14_FirstSuccessEnds ==
    resolver.field # "none" =>
        /\ Len(Tried) <= NumCand(resolver.field)
        /\ \A k \in 1..Len(Tried) - 1 : Tried[k] \in {"absent", "error"}
        /\ pc = "resolve" => \A k \in 1..Len(Tried) : Tried[k] # "ok"
        /\ (Tried # <<>> /\ Tried[Len(Tried)] = "ok") =>
              /\ resolver.named = Len(Tried)
              /\ pc # "resolve"
              /\ pc = AfterField(resolver.field) =>
                    last_mark = <<resolver.field, "PASS">> /\ exc = "none"
        /\ resolver.named # 0 => Tried[resolver.named] = "ok"
        /\ (Tried # <<>> /\ Tried[Len(Tried)] = "absent" /\ pc = "resolve")
              => last_mark = NoMark

\* C14 witness: the third candidate succeeded after an absent one and one
\* whose fill raised
C14_Witness ==
    /\ resolver.field = "id" /\ Tried = <<"absent", "error", "ok">>
    /\ resolver.named = 3 /\ pc = "fill_pw"

\* C15: a candidate whose fill raises gives a WARN and the resolution goes
\* on with the next candidate; fill_any reports FAIL and raises exactly when
\* every candidate was gone through without a success.
C15_FailOnlyWhenExhausted ==
    resolver.field # "none" =>
        LET exhausted == /\ Len(Tried) = NumCand(resolver.field)
                         /\ \A k \in 1..Len(Tried) : Tried[k] # "ok"
        IN  /\ (pc = "resolve" /\ Tried # <<>> /\ Tried[Len(Tried)] = "error")
                  => last_mark = <<resolver.field, "WARN">> /\ exc = "none"
            /\ exc = "fill_any" => exhausted /\ last_mark = <<resolver.field, "FAIL">>
            /\ last_mark = <<resolver.field, "FAIL">> => exhausted /\ exc = "fill_any"
            /\ (exhausted /\ pc # "resolve") => exc = "fill_any" /\ pc = "finally"
            /\ (pc = "resolve" /\ ~exhausted) => exc = "none"

\* C15 witness: every password candidate was gone through, two of them with
\* a fill that raised, and fill_any raised
C15_Witness ==
    /\ resolver.field = "pw" /\ Tried = <<"error", "absent", "error", "absent">>
    /\ exc = "fill_any" /\ pc = "finally"

\* the month x day combinations of the loop, months in source order and the
\* days in source order within each month
Passes ==
    [k \in 1..(Len(loop_months) * Len(loop_days)) |->
        <<loop_months[((k - 1) \div Len(loop_days)) + 1],
          loop_days[((k - 1) % Len(loop_days)) + 1][2]>>]

\* p is one of the combinations
IsPass(p) ==
    /\ \E i \in 1..Len(loop_months) : loop_months[i] = p[1]
    /\ \E j \in 1..Len(loop_days) : loop_days[j][2] = p[2]

\* the place of a combination in that order
PassPos(p) ==
    (CHOOSE i \in 1..Len(loop_months) : loop_months[i] = p[1]) * Len(loop_days)
    + (CHOOSE j \in 1..Len(loop_days) : loop_days[j][2] = p[2])

\* the combination a line of the result collection belongs to
PassOf(line) == <<IF line[2] = Unspecified THEN NoMonth ELSE line[2], line[3]>>

InLoop == pc \in {"loop_month", "loop_day", "search", "scan"}

\* the loop has run to its end
LoopDone == "read" \in did /\ ~InLoop /\ mi > Len(loop_months)

\* a number that every step of the loop makes smaller
LoopMeasure ==
    IF ~InLoop THEN 0
    ELSE LET K == MaxRows + 4
             stage == CASE pc = "loop_month" -> MaxRows + 3
                        [] pc = "loop_day" -> MaxRows + 2
                        [] pc = "search" -> MaxRows + 1
                        [] pc = "scan" -> rows_left
         IN  ((Len(loop_months) + 1 - mi) * (Len(loop_days) + 2)
                + (Len(loop_days) + 1 - di)) * K + stage

\* C16: the searches are made in the order of the combinations, months in
\* source order and days in source order within each month, each at most
\* once; when no selection failed and the search control was present each
\* time, every combination was searched exactly once; the lines of the
\* result collection follow the same order; the loop terminates (every step
\* of the loop lowers a measure that stays positive inside the loop).
C16_LoopOrder ==
    /\ [](/\ \A k \in 1..Len(searched) : IsPass(searched[k])
          /\ \A k \in 1..Len(searched) : \A l \in (k + 1)..Len(searched) :
                PassPos(searched[k]) < PassPos(searched[l])
          /\ \A k \in 1..Len(found_lines) :
                /\ \E l \in 1..Len(searched) : searched[l] = PassOf(found_lines[k])
                /\ \A l \in (k + 1)..Len(found_lines) :
                      PassPos(PassOf(found_lines[k])) <= PassPos(PassOf(found_lines[l]))
          /\ (LoopDone /\ skipped = {}) => searched = Passes
          /\ InLoop => LoopMeasure > 0)
    /\ [][InLoop => LoopMeasure' < LoopMeasure]_vars

\* C16 witness: two months and two days were gone through without a skip,
\* and lines were found in the first and in the last combination
C16_Witness ==
    /\ LoopDone /\ skipped = {} /\ Len(searched) = 4
    /\ Len(found_lines) = 2
    /\ PassOf(found_lines[1]) = searched[1] /\ PassOf(found_lines[2]) = searched[4]

\* C17: a month whose selection failed has none of its days selected,
\* searched or scanned, and the loop goes on with the next month; a day
\* whose selection failed is not searched or scanned, and the loop goes on
\* with the next day; no selection failure raises; a search is made only
\* for a combination whose month (when there is one) and day were selected.
C17_SkipOnFailedSelection ==
    /\ \A s \in skipped :
          /\ s[3] = "month" =>
                /\ \A k \in 1..Len(searched) : searched[k][1] # s[1]
                /\ \A k \in 1..Len(found_lines) : PassOf(found_lines[k])[1] # s[1]
                /\ \A t \in skipped : t[1] = s[1] => t = s
          /\ s[3] \in {"day", "nosearch"} =>
                /\ \A k \in 1..Len(searched) : searched[k] # <<s[1], s[2]>>
                /\ \A k \in 1..Len(found_lines) : PassOf(found_lines[k]) # <<s[1], s[2]>>
    /\ (mi >= 1 /\ last_mark \in {"month", "day"} \X {"FAIL", "WARN"})
          => exc = "none" /\ pc \in {"loop_month", "loop_day"}
    /\ pc \in {"search", "scan"} =>
          /\ \A s \in skipped : s[1] = m_lb => (s[3] # "month" /\ s[2] # d_lb)
          /\ pc = "search" => last_mark = <<"day", "PASS">>
    /\ LoopDone =>
          \A k \in 1..Len(Passes) : LET p == Passes[k] IN
              \/ \E l \in 1..Len(searched) : searched[l] = p
              \/ \E s \in skipped : s[1] = p[1] /\ s[2] \in {p[2], AllDays}

\* C17 witness: the loop ran to its end after a month and, in another
\* month, a day failed to be selected, and it searched a later day
C17_Witness ==
    /\ LoopDone
    /\ \E s \in skipped, t \in skipped :
          /\ s[3] = "month" /\ t[3] = "day"
          /\ \E k \in 1..Len(searched) :
                searched[k][1] = t[1] /\ PassPos(searched[k]) > PassPos(<<t[1], t[2]>>)

\* C18 (as claimed): the prefecture is selected only after the prefecture
\* select was seen to hold more than one option following the region
\* selection, and the month and day option lists are read only after both
\* selects were seen to hold more than one option following the prefecture
\* selection.
C18_WaitBeforeUse ==
    /\ "pref" \in did => "wait_pref" \in did
    /\ "read" \in did => "wait_dates" \in did

\* C19: the browser context opened at the start of main() is closed on
\* every way out of main(): the run summary, the handler of the entry point
\* and the process exit are reached only with the context closed, whatever
\* raised (a critical check, or an exception in the login, the navigation,
\* the selections, the loop or the logout); it is never closed before the
\* finally clause.
C19_SessionReleased ==
    /\ pc \in {"summary", "returned", "except"} => session = "closed"
    /\ pc = "exited" =>
          \/ session = "closed"
          \/ session = "none" /\ ~(env.user_id /\ env.password)
    /\ session = "open" =>
          pc \notin {"import", "launch", "summary", "returned", "except", "exited"}
    /\ (exc # "none" /\ pc # "finally") => session = "closed"
    /\ pc \in {"import", "launch"} => session = "none"

\* C19 witness: the wait for the prefecture options timed out and the
\* process has exited with the context closed
C19_Witness == pc = "exited" /\ exc = "wait" /\ session = "closed" /\ "region" \in did

\* C20 (as claimed): a completed run exits zero; a missing login form, a
\* login not confirmed, an unreachable area/date page and a missing required
\* variable each exit non-zero with the failure report of the entry point.
C20_ExitCodes ==
    pc = "exited" =>
        /\ (exc = "none" /\ session = "closed") => exit_code = "zero"
        /\ (exc \in {"login_page", "login", "nav_check"} \/ ~(env.user_id /\ env.password))
              => exit_code = "nonzero" /\ job_summary = "error"

\* C21 (as claimed): with SEND_EMAIL on and a mail credential missing the
\* process stops at import, before the browser is launched and any page is
\* loaded, and exits non-zero; with SEND_EMAIL off the missing mail
\* credentials never stop the run.
C21_MailCredentialsAtStartup ==
    /\ (env.send_email /\ ~env.gmail) =>
          /\ pc \in {"import", "exited"} /\ session = "none"
          /\ pc = "exited" => exit_code = "nonzero"
    /\ (~env.send_email /\ env.user_id /\ env.password /\ pc = "exited")
          => session = "closed"

\* C22: send_gmail never raises: a failed SMTP exchange and missing
\* credentials are reported as FAIL, SEND_EMAIL off as WARN without sending;
\* whatever its outcome the run returns from main() with the success mark,
\* exits zero with the normal job summary, and the result collection is
\* the one the body was built from.
C22_NotifierContained ==
    delivery # "none" =>
        /\ exc = "none" /\ pc \in {"returned", "exited"}
        /\ result_mark = "PASS"
        /\ found_lines # <<>> /\ mails = <<Body(found_lines)>>
        /\ pc = "exited" => exit_code = "zero" /\ job_summary = "notice"
        /\ ~env.send_email => delivery = "skipped"
        /\ (env.send_email /\ ~env.gmail) => delivery = "unconfigured"
        /\ (env.send_email /\ env.gmail) => delivery \in {"sent", "error"}
        /\ pc = "returned" =>
              last_mark = <<"mail", CASE delivery = "sent" -> "PASS"
                                      [] delivery = "skipped" -> "WARN"
                                      [] OTHER -> "FAIL">>

\* C22 witness: the SMTP exchange failed and the process has exited zero
C22_Witness ==
    /\ delivery = "error" /\ pc = "exited" /\ exit_code = "zero" /\ found_lines # <<>>

RECURSIVE SplitAt(_, _)
\* the pieces of a text between the occurrences of a token
SplitAt(text, tok) ==
    IF \A i \in 1..Len(text) : text[i] # tok THEN <<text>>
    ELSE LET i == CHOOSE i \in 1..Len(text) :
                      text[i] = tok /\ \A j \in 1..(i - 1) : text[j] # tok
         IN  <<SubSeq(text, 1, i - 1)>> \o SplitAt(SubSeq(text, i + 1, Len(text)), tok)

\* the fields of a line of the body: the pieces between the bars, without
\* the blank on each side of a bar
FieldsOf(text) ==
    LET ps == SplitAt(text, "|")
    IN  [k \in 1..Len(ps) |->
            SubSeq(ps[k], IF k = 1 THEN 1 ELSE 2,
                          IF k = Len(ps) THEN Len(ps[k]) ELSE Len(ps[k]) - 1)]

\* the lines of the one notification body
BodyLines == SplitAt(mails[1], "\n")

\* each line appended for the row just scanned has the fields centre,
\* month, day, time, and a fifth field, the link, exactly when the marker
\* has a non-empty link
ScanFields ==
    (row # <<>> /\ added # <<>>) =>
        /\ Len(added) = Len(RowCells(row))
        /\ \A k \in 1..Len(added) :
              /\ Len(added[k]) = (IF RowCells(row)[k].href # <<>> THEN 5 ELSE 4)
              /\ added[k][4] = Strip(RowCells(row)[k].text)
              /\ Len(added[k]) = 5 => added[k][5] = RowCells(row)[k].href

\* C25 (as claimed): the body consists of the newline-joined record lines,
\* one per record in accumulation order, each of the form
\* centre | month | day | time with | link appended exactly for a non-empty
\* link.
C25_BodyIsRecordLines ==
    /\ ScanFields
    /\ mails # <<>> =>
          /\ Len(BodyLines) = Len(found_lines)
          /\ \A k \in 1..Len(found_lines) : FieldsOf(BodyLines[k]) = found_lines[k]

\* C25 (amended): the body is a header line naming the region, the
\* prefecture and the start month, an empty line, and then the record
\* lines joined by newlines, one per record in accumulation order, each of
\* the form centre | month | day | time with | link appended exactly for a
\* non-empty link.
C25_BodyHeaderThenLines ==
    /\ ScanFields
    /\ mails # <<>> =>
          /\ Len(BodyLines) = Len(found_lines) + 2
          /\ BodyLines[1] = Header /\ BodyLines[2] = <<>>
          /\ \A k \in 1..Len(found_lines) :
                /\ FieldsOf(BodyLines[k + 2]) = found_lines[k]
                /\ Len(found_lines[k]) \in {4, 5}
                /\ Len(found_lines[k]) = 5 => found_lines[k][5] # <<>>

\* C25 witness: a body with a line that carries a link and one that does not
C25_Witness ==
    /\ mails # <<>> /\ Len(found_lines) = 2
    /\ Len(found_lines[1]) = 4 /\ Len(found_lines[2]) = 5

\* C23 (as claimed): after the loop has run to its end the logout attempt
\* never aborts the run, whether the control is absent, or present and the
\* click succeeds or fails: the run goes on to the run summary, and a
\* non-empty result collection is reported and notified.
C23_LogoutNonFatal ==
    LoopDone =>
        /\ exc = "none"
        /\ pc \in {"logout", "finally", "summary", "returned", "exited"}
        /\ (pc \in {"returned", "exited"} /\ found_lines # <<>>)
              => result_mark = "PASS" /\ Len(mails) = 1

\* C24 (as claimed): a navigation step whose optional control is absent
\* reports WARN, raises nothing and goes on to the next step, so that
\* main.py reaches the final arrival check whatever controls are absent.
C24_AbsentStepWarns ==
    (ctl = "absent" /\ pc # "finally" /\ last_mark[1] # "logout") =>
        /\ last_mark[2] = "WARN"
        /\ exc = "none"
        /\ pc \in {"nav3", "nav4", "nav5", "nav_final", "check_nav", "wnav_exam",
                    "wnav_student", "wnav_consent", "wnav_next", "select_region"}

\* the cells of a row that hold a link, and the td cells of a row
LinkCells(r) == {i \in 1..Len(r) : \E k \in 1..Len(r[i].kids) : r[i].kids[k].tag = "a"}
TdCells(r) == {i \in 1..Len(r) : r[i].tag = "td"}

\* the text of the first link anywhere in the row; without any link the
\* text of the first td; without a td the empty text
FirstLinkOrCell(r) ==
    IF LinkCells(r) # {}
    THEN LET i == Nth(LinkCells(r), 1)
             k == Nth({x \in 1..Len(r[i].kids) : r[i].kids[x].tag = "a"}, 1)
         IN  Strip(r[i].kids[k].text)
    ELSE IF TdCells(r) # {} THEN Strip(CellText(r[Nth(TdCells(r), 1)]))
    ELSE <<>>

\* C26: the display name extracted for a row is the text of the first link
\* anywhere in the row when the row holds a link, a marker link included,
\* and the first cell's text only when it holds no link; a row is matched
\* exactly when that name is not empty and holds a target name.
C26_NameFromFirstLink ==
    row # <<>> =>
        LET name == FirstLinkOrCell(row)
        IN  /\ (last_mark[1] = "slots") <=> (name # <<>> /\ HasTargetInside(name))
            /\ \A k \in 1..Len(added) : added[k][1] = name
            /\ name = <<>> => added = <<>> /\ last_mark = NoMark

\* C26 witness: a row whose first cell names a target centre as plain text
\* and whose only link is the marker was scanned and not matched
C26_Witness ==
    /\ pc = "scan" /\ row = RowTextNameLinkMarker /\ added = <<>> /\ last_mark = NoMark

\* no line of the result collection belongs to the pass searched last
NothingForLastPass ==
    /\ searched # <<>>
    /\ \A k \in 1..Len(found_lines) : PassOf(found_lines[k]) # searched[Len(searched)]

\* C27: a search that shows no table, a matched row without a marker and a
\* table without a matched row each give a WARN only: nothing is appended
\* for that table or row, nothing is raised, the scan goes on with the
\* next row and the loop with the next combination.
C27_EmptyScanWarns ==
    /\ last_mark = <<"table", "WARN">> =>
          NothingForLastPass /\ exc = "none" /\ pc = "loop_day"
    /\ last_mark = <<"match", "WARN">> =>
          NothingForLastPass /\ exc = "none" /\ pc = "loop_day"
    /\ last_mark = <<"slots", "WARN">> =>
          /\ row # <<>> /\ RowMarkerCount(row) = 0 /\ HasTargetInside(FirstLinkOrCell(row))
    /\ (row # <<>> /\ HasTargetInside(FirstLinkOrCell(row)) /\ RowMarkerCount(row) = 0) =>
          /\ last_mark = <<"slots", "WARN">>
          /\ added = <<>> /\ EndsWithAdded
          /\ exc = "none" /\ pc = "scan"

\* C27 witness: a matched row without a marker was scanned after a row that
\* gave lines, and a row of the table is still to scan
C27_Witness ==
    /\ pc = "scan" /\ row = RowNoMarker /\ last_mark = <<"slots", "WARN">>
    /\ rows_left = 1 /\ found_lines # <<>>

\* C28 (as claimed): inside goto_area_date_page no click is made from a
\* page on which the arrival predicate is true: once a click has landed on
\* the area/date page the function returns without navigating again.
C28_NoClickAfterArrival ==
    [][(script = "main" /\ pc \in {"nav2", "nav3", "nav4", "nav5"} /\ on_area_date(page))
          => page' = page]_vars

\* C29 (as claimed): a run in which the region or the prefecture selection
\* reported a failure never enters the loop, triggers no search and records
\* no slot.
C29_LoopNeedsSelections ==
    sel_failed =>
        /\ ~InLoop
        /\ searched = <<>> /\ found_lines = <<>>

\* C30 (as claimed): when no day option is valid the loop goes through the
\* one placeholder day and, the month selected and the search control
\* present, searches once for each month gone through; when no month is
\* eligible the one placeholder month is gone through without a month
\* selection and its lines carry the unspecified label.
C30_PlaceholderPasses ==
    /\ (LoopDone /\ dt_opts = <<>> /\ \A s \in skipped : s[3] = "day") =>
          /\ Len(searched) = Len(loop_months)
          /\ \A k \in 1..Len(searched) : searched[k][2] = AnyDay
    /\ ("read" \in did /\ ym_labels = <<>>) =>
          /\ "month" \notin did
          /\ \A k \in 1..Len(searched) : searched[k][1] = NoMonth
          /\ \A k \in 1..Len(found_lines) : found_lines[k][2] = Unspecified

----------------------------------------------------------------------------
(* C31: the labels of the records *)

\* the label is not empty and holds no placeholder marker
ProperDay(lb) ==
    /\ lb # <<>>
    /\ \A i \in 1..(Len(lb) - 1) : <<lb[i], lb[i + 1]>> # <<"sen", "taku">>

\* the label reads as a month that is not before the configured start
NotBeforeStart(lb) ==
    LET pm == parse_month_label(lb)
    IN  pm # <<>> /\ 12 * pm[1] + pm[2] >= 12 * StartYear + StartMonth

\* C31: every record of the result collection carries a month label that
\* is one of the eligible months read before the loop, naming a month at or
\* after the configured start, or the 'unspecified' placeholder, and a day
\* label that is one of the valid day options read before the loop or the
\* day placeholder; no record is tagged with a month before the start.
C31_RecordLabels ==
    \A k \in 1..Len(found_lines) :
        /\ \/ found_lines[k][2] = Unspecified /\ ym_labels = <<>>
           \/ /\ \E j \in 1..Len(ym_labels) : ym_labels[j] = found_lines[k][2]
              /\ NotBeforeStart(found_lines[k][2])
        /\ \/ found_lines[k][3] = AnyDay /\ dt_opts = <<>>
           \/ /\ \E j \in 1..Len(dt_opts) : dt_opts[j][2] = found_lines[k][3]
              /\ ProperDay(found_lines[k][3])

\* C31 witness: the month select offered a month before the start next to
\* eligible ones, and a record tagged with an eligible month and a valid
\* day was collected
C31_Witness ==
    /\ \E k \in 1..Len(dom_ym.opts) :
          parse_month_label(LabelAt(dom_ym, k)) = <<2025, 10>>
    /\ \E k \in 1..Len(found_lines) :
          NotBeforeStart(found_lines[k][2]) /\ ProperDay(found_lines[k][3])

----------------------------------------------------------------------------
(* seat_watcher_ipa.py: the third script.  It logs in, walks to the centre *)
(* list, and for every block of the list that names a target centre opens  *)
(* the centre's calendar, moves the calendar to the start month and        *)
(* collects the slot links the calendar shows.                             *)

\* blocks of the centre list
MaxBlocks == 1
\* elements of a calendar page that may be slot links
MaxSlots == 1

\* def ensure_month_from(page, start_ym, max_steps: int = 24)
max_steps == 24

\* the variables the third script does not use
otherv == <<navv, did, resolver, login, sel_failed, domv, loopv,
            rows_left, matched, row, added>>

DigitOf(d) == CHOOSE ch \in Digits : DigitVal(ch) = d

\* the header of a calendar page that shows the month ym
YmText(ym) ==
    << DigitOf(ym[1] \div 1000), DigitOf((ym[1] \div 100) % 10),
       DigitOf((ym[1] \div 10) % 10), DigitOf(ym[1] % 10), "nen", Space >>
    \o (IF ym[2] >= 10 THEN <<DigitOf(ym[2] \div 10)>> ELSE <<>>)
    \o << DigitOf(ym[2] % 10), "gatsu" >>

\* hdr = header.inner_text() if header.count() else page.inner_text("body"):
\* a page without a calendar holds no text that reads as a month
HeaderText(c) == IF c # NoYm THEN YmText(c) ELSE <<"-">>

\* m = re.search(r"(\d{4})nen\s*(\d{1,2})gatsu", text); (year, month) or None
ym_from_header(text) == MonthSearchFrom(text, 1)

\* the month after ym
NextYm(ym) == IF ym[2] = 12 THEN <<ym[1] + 1, 1>> ELSE <<ym[1], ym[2] + 1>>

\* cur and (cur[0] > sy or (cur[0] == sy and cur[1] >= sm))
Reached(cur) ==
    cur # <<>> /\ (cur[1] > StartYear \/ (cur[1] = StartYear /\ cur[2] >= StartMonth))

\* one pass of the loop of ensure_month_from on a calendar that shows c,
\* after n passes, has_next being whether the next-month control exists:
\* "pass" and "warn" return True, "fail" returns False after the loop,
\* "click" clicks the control and goes round
ensure_month_from_next(c, n, has_next) ==
    IF n >= max_steps THEN "fail"
    ELSE IF Reached(ym_from_header(HeaderText(c))) THEN "pass"
    ELSE IF ~has_next THEN "warn"
    ELSE "click"

\* the months a calendar shows when it is opened
CalStarts == { <<2023, 10>>, <<2023, 11>>, <<2025, 10>>, <<2025, 11>>, NoYm }

\* the texts of the blocks of the centre list
BlockTexts ==
    { Naha \o <<"\n">> \o <<"O", "A", "C">>,
      <<"x">> \o Naha,
      <<"n", "a", "h", "a">> }

\* center_name = next((c for c in TARGET_CENTERS if c in text), ...)
center_name(text) ==
    TARGET_CENTERS[CHOOSE k \in 1..Len(TARGET_CENTERS) :
                      /\ Contains(text, TARGET_CENTERS[k])
                      /\ \A j \in 1..(k - 1) : ~Contains(text, TARGET_CENTERS[j])]

\* the links and buttons of a calendar page
SlotElems ==
    { Elem("a", <<Maru>>, Slot1), Elem("button", <<Space, Maru>>, <<>>),
      Elem("a", <<"x">>, Slot1) }

RECURSIVE slot_link(_)
\* page.locator(SEL["slot_link"]): the links and buttons that show the glyph
slot_link(elems) ==
    IF elems = <<>> THEN <<>>
    ELSE (IF Contains(Head(elems).text, <<Maru>>) THEN <<Head(elems)>> ELSE <<>>)
         \o slot_link(Tail(elems))

RECURSIVE SlotLines(_, _)
\* t = slots.nth(j).inner_text().strip(); if no glyph in t: continue
\* href = slots.nth(j).get_attribute("href") or ""
\* found_lines.append(f"{center_name} | {t} | {href}")
SlotLines(name, slots) ==
    IF slots = <<>> THEN <<>>
    ELSE (IF Contains(Strip(Head(slots).text), <<Maru>>)
          THEN << <<name, Strip(Head(slots).text),
                    IF Head(slots).tag = "a" THEN Head(slots).href ELSE <<>>>> >>
          ELSE <<>>)
         \o SlotLines(name, Tail(slots))

\* an exception leaves the try block of main() of seat_watcher_ipa.py
SRaise(what) == pc' = "s_finally" /\ exc' = what

\* IPA_USER_ID = need(...); IPA_PASSWORD = need(...); GMAIL_ADDRESS = need(...);
\* GMAIL_APP_PASSWORD = need(...)
SImport ==
    /\ pc = "s_import"
    /\ IF env.user_id /\ env.password /\ env.gmail
       THEN pc' = "s_launch" /\ exit_code' = exit_code
       ELSE pc' = "exited" /\ exit_code' = "nonzero"
    /\ UNCHANGED <<cfgv, otherv, seatv, exc, session, found_lines,
                   mails, delivery, result_mark, job_summary>> /\ Quiet

\* browser = p.chromium.launch(...); context = ...; page = ...
SLaunch ==
    /\ pc = "s_launch"
    /\ session' = "open"
    /\ pc' = "s_login"
    /\ UNCHANGED <<cfgv, otherv, seatv, exc, found_lines, endv>> /\ Quiet

\* page.goto(IPA_LOGIN_URL); check(form, critical); fill, fill, click;
\* check(form gone, critical)
SLogin ==
    /\ pc = "s_login"
    /\ \E o \in {"raise", "noform", "still", "gone"} :
          IF o = "raise" THEN Quiet /\ SRaise("login")
          ELSE LET c == check(o = "gone", TRUE)
               IN  /\ Mark(IF o = "noform" THEN "login_page" ELSE "login",
                           IF c = "pass" THEN "PASS" ELSE "FAIL")
                   /\ IF c = "raise" THEN SRaise("login")
                      ELSE pc' = "s_entry" /\ exc' = exc
    /\ UNCHANGED <<cfgv, otherv, seatv, session, found_lines, endv>>

\* page.goto(IPA_FE_ENTRY_URL); pass_mark
SEntry ==
    /\ pc = "s_entry"
    /\ \E ok \in BOOLEAN :
          IF ok THEN Mark("entry", "PASS") /\ pc' = "s_resume" /\ exc' = exc
          ELSE Quiet /\ SRaise("goto")
    /\ UNCHANGED <<cfgv, otherv, seatv, session, found_lines, endv>>

\* an optional step of the walk: the control is clicked when it exists
\* (PASS), else the step is left out (WARN); a click may raise; softened
\* steps turn their failure into a WARN
SOptional(here, step, there, softened) ==
    /\ pc = here
    /\ \E o \in {"absent", "done", "failed"} :
          CASE o = "absent" ->
                 MarkCtl(step, "WARN", FALSE) /\ pc' = there /\ exc' = exc
            [] o = "done" ->
                 MarkCtl(step, "PASS", TRUE) /\ pc' = there /\ exc' = exc
            [] o = "failed" ->
                 IF softened
                 THEN MarkCtl(step, "WARN", TRUE) /\ pc' = there /\ exc' = exc
                 ELSE QuietCtl(TRUE) /\ SRaise(step)
    /\ UNCHANGED <<cfgv, otherv, session, found_lines, endv>>

\* resume, exam (a timeout of the click is caught), student, consent
SWalk ==
    /\ \/ SOptional("s_resume", "resume", "s_exam", FALSE)
       \/ SOptional("s_exam", "exam", "s_student", TRUE)
       \/ SOptional("s_student", "student", "s_agree", FALSE)
       \/ SOptional("s_agree", "consent", "s_region", FALSE)
    /\ UNCHANGED seatv

\* region and prefecture: by button, else by select (a failure is caught)
SArea ==
    /\ \/ SOptional("s_region", "region", "s_pref", TRUE)
       \/ SOptional("s_pref", "pref", "s_search", TRUE)
    /\ UNCHANGED seatv

\* the search button; blocks = page.locator(...); n_blocks = blocks.count()
SSearch ==
    /\ SOptional("s_search", "search", "s_block", FALSE)
    /\ blocks' \in 0..MaxBlocks
    /\ UNCHANGED <<block, centers_matched, cal, steps, aligned, slot_yms>>

\* one pass of the loop over the blocks, up to the click on the detail
\* link; after the loop, the count of matched centres is reported
SBlock ==
    /\ pc = "s_block"
    /\ IF blocks = 0
       THEN /\ Mark("centers", IF centers_matched = 0 THEN "WARN" ELSE "PASS")
            /\ pc' = "s_logout"
            /\ UNCHANGED <<exc, seatv>>
       ELSE \/ \* inner_text raises: continue
               /\ blocks' = blocks - 1 /\ Quiet
               /\ UNCHANGED <<pc, exc, block, centers_matched, cal, steps, aligned, slot_yms>>
            \/ \E text \in BlockTexts :
                  /\ block' = text
                  /\ UNCHANGED <<aligned, slot_yms>>
                  /\ IF ~MatchesTarget(text)
                     THEN /\ blocks' = blocks - 1 /\ Quiet
                          /\ UNCHANGED <<pc, exc, centers_matched, cal, steps>>
                     ELSE /\ centers_matched' = centers_matched + 1
                          /\ \E o \in {"nolink", "raise", "opened"} :
                                CASE o = "nolink" ->
                                       /\ Mark("detail", "FAIL")
                                       /\ blocks' = blocks - 1
                                       /\ UNCHANGED <<pc, exc, cal, steps>>
                                  [] o = "raise" ->
                                       /\ Mark("detail", "PASS") /\ SRaise("detail")
                                       /\ UNCHANGED <<blocks, cal, steps>>
                                  [] o = "opened" ->
                                       /\ Mark("detail", "PASS")
                                       /\ cal' \in CalStarts
                                       /\ steps' = 0
                                       /\ pc' = "s_ensure"
                                       /\ UNCHANGED <<blocks, exc>>
    /\ UNCHANGED <<cfgv, otherv, session, found_lines, endv>>

\* ensure_month_from(page, START_YM): one pass of its loop, or its end
SEnsure ==
    /\ pc = "s_ensure"
    /\ \E has_next \in BOOLEAN :
          LET o == ensure_month_from_next(cal, steps, has_next)
          IN  CASE o = "pass" ->
                     /\ Mark("align", "PASS") /\ aligned' = "true"
                     /\ pc' = "s_slots" /\ UNCHANGED <<exc, cal, steps>>
                [] o = "warn" ->
                     /\ Mark("align", "WARN") /\ aligned' = "true"
                     /\ pc' = "s_slots" /\ UNCHANGED <<exc, cal, steps>>
                [] o = "fail" ->
                     /\ Mark("align", "FAIL") /\ aligned' = "false"
                     /\ pc' = "s_slots" /\ UNCHANGED <<exc, cal, steps>>
                [] o = "click" ->
                     /\ Quiet
                     /\ \/ \* the click or the wait raises
                           SRaise("next_month") /\ UNCHANGED <<cal, steps, aligned>>
                        \/ \* the calendar moves on one month
                           /\ cal' = (IF cal = NoYm THEN NoYm ELSE NextYm(cal))
                           /\ steps' = steps + 1
                           /\ UNCHANGED <<pc, exc, aligned>>
    /\ UNCHANGED <<cfgv, otherv, session, found_lines, endv, blocks, block,
                   centers_matched, slot_yms>>

\* the slot links of the page on display are appended, whatever
\* ensure_month_from returned; then page.go_back()
SSlots ==
    /\ pc = "s_slots"
    /\ \E elems \in SeqsUpTo(SlotElems, MaxSlots), back_ok \in BOOLEAN :
          LET lines == SlotLines(center_name(block), slot_link(elems))
          IN  /\ found_lines' = found_lines \o lines
              /\ slot_yms' = slot_yms \o [k \in 1..Len(lines) |-> cal]
              /\ Mark("slots", IF lines # <<>> THEN "PASS" ELSE "WARN")
              /\ IF back_ok
                 THEN /\ blocks' = blocks - 1 /\ cal' = NoYm
                      /\ pc' = "s_block" /\ exc' = exc
                 ELSE SRaise("go_back") /\ UNCHANGED <<blocks, cal>>
    /\ steps' = 0
    /\ aligned' = "none"
    /\ UNCHANGED <<cfgv, otherv, session, endv, block, centers_matched>>

\* logout: optional, the click is not guarded
SLogout ==
    /\ SOptional("s_logout", "logout", "s_finally", FALSE)
    /\ UNCHANGED seatv

\* finally: context.close(); browser.close()
SFinally ==
    /\ pc = "s_finally"
    /\ session' = "closed"
    /\ pc' = IF exc # "none" THEN "s_except" ELSE "s_summary"
    /\ UNCHANGED <<cfgv, otherv, seatv, exc, found_lines, endv>> /\ Quiet

\* body = "...: region / prefecture / 2025-11 on / 3 centres\n\n" + "\n".join(found_lines)
SeatHeader ==
    <<"t", ":", Space>> \o REGION_NAME \o <<Space, "/", Space>> \o PREF_NAME
    \o <<Space, "/", Space>> \o START_YM \o <<"+", Space, "/", Space, "3">>
SeatBody(lines) ==
    SeatHeader \o <<"\n", "\n">>
    \o JoinWith([k \in 1..Len(lines) |-> LineText(lines[k])], <<"\n">>)

\* the run summary: every line found is mailed; send_gmail catches its errors
SSummary ==
    /\ pc = "s_summary"
    /\ IF found_lines # <<>>
       THEN /\ result_mark' = "PASS"
            /\ mails' = Append(mails, SeatBody(found_lines))
            /\ \E smtp_ok \in BOOLEAN :
                  /\ delivery' = (IF smtp_ok THEN "sent" ELSE "error")
                  /\ Mark("mail", IF smtp_ok THEN "PASS" ELSE "FAIL")
       ELSE /\ result_mark' = "WARN"
            /\ Mark("result", "WARN")
            /\ UNCHANGED <<mails, delivery>>
    /\ pc' = "s_returned"
    /\ UNCHANGED <<cfgv, otherv, seatv, exc, session, found_lines, job_summary, exit_code>>

\* main() returned: the job summary notice
SExitNormal ==
    /\ pc = "s_returned"
    /\ job_summary' = "notice"
    /\ exit_code' = "zero"
    /\ pc' = "exited"
    /\ UNCHANGED <<cfgv, otherv, seatv, exc, session, found_lines,
                   mails, delivery, result_mark>> /\ Quiet

\* except Exception: the job summary error, then the exception is re-raised
SExitFailure ==
    /\ pc = "s_except"
    /\ job_summary' = "error"
    /\ exit_code' = "nonzero"
    /\ pc' = "exited"
    /\ UNCHANGED <<cfgv, otherv, seatv, exc, session, found_lines,
                   mails, delivery, result_mark>> /\ Quiet

InitSeat ==
    /\ script = "seat"
    /\ site = "free"
    /\ env \in {e \in Envs : e.send_email}
    /\ pc = "s_import"
    /\ exc = "none"
    /\ session = "none"
    /\ page = NoPage
    /\ arrived = "unknown"
    /\ did = {}
    /\ last_mark = NoMark
    /\ ctl = "none"
    /\ resolver = Idle
    /\ login = NoLogin
    /\ sel_failed = FALSE
    /\ dom_ym = NoSelect
    /\ dom_dt = NoSelect
    /\ ym_labels = <<>>
    /\ dt_opts = <<>>
    /\ mi = 0
    /\ di = 0
    /\ searched = <<>>
    /\ skipped = {}
    /\ rows_left = 0
    /\ matched = 0
    /\ row = <<>>
    /\ added = <<>>
    /\ found_lines = <<>>
    /\ mails = <<>>
    /\ delivery = "none"
    /\ result_mark = "none"
    /\ job_summary = "none"
    /\ exit_code = "running"
    /\ SeatIdle

NextSeat ==
    \/ SImport \/ SLaunch \/ SLogin \/ SEntry \/ SWalk \/ SArea \/ SSearch
    \/ SBlock \/ SEnsure \/ SSlots
    \/ SLogout \/ SFinally \/ SSummary \/ SExitNormal \/ SExitFailure

SpecSeat == InitSeat /\ [][NextSeat]_vars

----------------------------------------------------------------------------
(* C32, C33: the month alignment of seat_watcher_ipa.py *)

\* the calendar shows a month at or after the configured start
AtOrAfterStart(ym) == ym # NoYm /\ 12 * ym[1] + ym[2] >= 12 * StartYear + StartMonth

\* C32: ensure_month_from makes at most max_steps next-month clicks; it
\* returns true only when the month on display is at or after the start
\* month or when no next-month control exists; it returns false, with FAIL,
\* only after exactly max_steps clicks that did not reach the start month.
C32_EnsureMonthBounded ==
    /\ steps <= max_steps
    /\ aligned = "true" =>
          \/ AtOrAfterStart(cal) /\ last_mark = <<"align", "PASS">>
          \/ ~AtOrAfterStart(cal) /\ last_mark = <<"align", "WARN">>
    /\ aligned = "false" =>
          /\ last_mark = <<"align", "FAIL">>
          /\ steps = max_steps
          /\ ~AtOrAfterStart(cal)

\* the parts of C32 that bound the clicks and describe the true results
C32_BoundedAndTrueResults ==
    /\ steps <= max_steps
    /\ aligned = "true" =>
          \/ AtOrAfterStart(cal) /\ last_mark = <<"align", "PASS">>
          \/ ~AtOrAfterStart(cal) /\ last_mark = <<"align", "WARN">>
    /\ aligned = "false" => last_mark = <<"align", "FAIL">> /\ steps = max_steps

\* C33: no line of the result collection, and so no line of a notification,
\* was appended while the calendar showed a month before START_YM, also
\* when the month alignment failed or could not advance.
C33_NoEarlySlots ==
    /\ Len(slot_yms) = Len(found_lines)
    /\ \A k \in 1..Len(slot_yms) :
          slot_yms[k] # NoYm => AtOrAfterStart(slot_yms[k])

====
